---------------------------- MODULE Spec2Model ----------------------------
(***************************************************************************)
(* A model of the X-TO-FBX converter: the text parser (XFileParser), the   *)
(* format-detecting facade (EnhancedXFileParser), the compressed-file      *)
(* entry point (BinaryXFileParser::ParseCompressedFile), the binary        *)
(* primitive reader (BinaryReader), the mesh validation routine            *)
(* (XMeshData::GetValidationErrors), the animation timing corrector and    *)
(* the command-line parser.                                                *)
(*                                                                         *)
(* Strings of the program are TLA+ strings; a character is a string of     *)
(* length one.  A float is modelled as an exact rational <<num, den>> in   *)
(* lowest terms with den > 0 (rounding of IEEE floats is not modelled).    *)
(***************************************************************************)
EXTENDS Integers, Sequences, FiniteSets, TLC

VARIABLES
    \* ---- XFileParser instance (text parser) ----
    parsedData,      \* XFileParser::parsedData_
    lineNumber,      \* XFileParser::lineNumber_
    parseResult,     \* value returned by the last top-level parse (FALSE before any)
    parseCalls,      \* number of top-level parses made on the instance
    lastCall,        \* the last top-level parse: <<operation, argument>>
    \* ---- EnhancedXFileParser instance (facade) ----
    binaryData,      \* BinaryXFileParser::parsedData_ of the facade's binaryParser_
    facadeResult,    \* value returned by EnhancedXFileParser::ParseFile
    retrieved,       \* the model GetParsedData / TakeParsedData handed out
    \* ---- BinaryReader ----
    rdSize,          \* BinaryReader::size_
    rdPos,           \* BinaryReader::position_
    rdOutcome,       \* outcome of the last reader operation
    rdRequest,       \* the last request: <<operation, argument, position before>>
    \* ---- XMeshData validation ----
    mesh,            \* the XMeshData under validation
    validationErrors,\* what GetValidationErrors returned
    meshPhase,
    \* ---- AnimationTimingCorrector ----
    anim,            \* the XAnimationSet handed to the corrector (mutated in place)
    animBefore,      \* its value before the call
    timingOut,       \* what the last corrector operation returned
    timingPhase,
    \* ---- command line ----
    argv,            \* the argument vector, argv[1] being the program name
    options,         \* ConversionOptions
    cliResult,       \* what ParseCommandLine returned
    \* ---- BinaryXFileParser::ParseCompressedFile ----
    cfile,           \* the file being parsed (abstract description of its bytes)
    cpc,             \* position inside ParseCompressedFile
    ctrace,          \* the decompression attempts made so far, in order
    cresult,         \* what ParseCompressedFile returned
    chanded,         \* the parser the call last handed a buffer to, and the buffer
    \* ---- XFileDecompressor signature predicates ----
    sigData,         \* the byte buffer handed to the predicates
    sigOut,          \* what IsZipCompressed / IsDirectXLZCompressed returned
    \* ---- AnimationTimingCorrector::CorrectAllAnimations ----
    batch,           \* the animations handed to the call (mutated in place)
    batchBefore,     \* their values before the call
    batchOut,        \* the returned result records
    batchPhase,
    \* Logger, called from several threads
    logOp,           \* the operation each thread runs
    logPc,           \* each thread's position in it
    logCalls,        \* the Log calls each thread's operation still has to make
    mutex_,          \* the thread holding Logger::mutex_, NoThread when it is free
    instance_,       \* Logger::instance_ is not null
    currentLevel_,
    enableConsole_,
    enableFile_,
    logFileOpen,     \* logFile_.is_open()
    logSink,         \* the writes to std::cout, std::cerr and the log file, in order
    relocked,        \* a thread has locked the mutex while holding it
    \* a function called on its own
    fnInput,         \* the arguments of the call
    fnOut            \* the operation called and what it returned

parserVars == <<parsedData, lineNumber, parseResult, parseCalls, lastCall>>
facadeVars == <<binaryData, facadeResult, retrieved>>
readerVars == <<rdSize, rdPos, rdOutcome, rdRequest>>
meshVars   == <<mesh, validationErrors, meshPhase>>
timingVars == <<anim, animBefore, timingOut, timingPhase>>
cliVars    == <<argv, options, cliResult>>
compVars   == <<cfile, cpc, ctrace, cresult, chanded>>

sigVars    == <<sigData, sigOut>>
\* the components added to the model after the first seven
batchVars  == <<batch, batchBefore, batchOut, batchPhase>>
logVars    == <<logOp, logPc, logCalls, mutex_, instance_, currentLevel_, enableConsole_,
                enableFile_, logFileOpen, logSink, relocked>>
fnVars     == <<fnInput, fnOut>>
auxVars    == <<sigVars, batchVars, logVars, fnVars>>

vars == <<parserVars, facadeVars, readerVars, meshVars, timingVars, cliVars, compVars,
          auxVars>>

RECURSIVE Call(_, _)

-----------------------------------------------------------------------------
(* Rationals: the model of float. *)

Abs(x) == IF x < 0 THEN -x ELSE x

RECURSIVE GCD(_, _)
GCD(a, b) == IF b = 0 THEN a ELSE GCD(b, a % b)

Rat(n, d) ==
    LET g == GCD(Abs(n), Abs(d))
        s == IF d < 0 THEN -1 ELSE 1
    IN  IF n = 0 THEN <<0, 1>> ELSE <<(s * n) \div g, (s * d) \div g>>

RInt(n) == <<n, 1>>
\* comparisons go by the integer parts first and cross-multiply the fractional
\* parts only, so that the products stay within 32 bits
RFloor(a) == a[1] \div a[2]
RFrac(a) == a[1] % a[2]
RLt(a, b) ==
    IF RFloor(a) # RFloor(b) THEN RFloor(a) < RFloor(b)
    ELSE RFrac(a) * b[2] < RFrac(b) * a[2]
RLe(a, b) ==
    IF RFloor(a) # RFloor(b) THEN RFloor(a) < RFloor(b)
    ELSE RFrac(a) * b[2] <= RFrac(b) * a[2]
RGt(a, b) == RLt(b, a)
RGe(a, b) == RLe(b, a)
\* products cancel common factors first, sums use the least common denominator
RMul(a, b) ==
    LET g1 == GCD(Abs(a[1]), b[2])
        g2 == GCD(Abs(b[1]), a[2])
    IN  IF a[1] = 0 \/ b[1] = 0 THEN <<0, 1>>
        ELSE Rat((a[1] \div g1) * (b[1] \div g2), (a[2] \div g2) * (b[2] \div g1))
RDiv(a, b) == RMul(a, IF b[1] < 0 THEN <<-b[2], -b[1]>> ELSE <<b[2], b[1]>>)   \* b # 0
RAdd(a, b) ==
    LET g == GCD(a[2], b[2])
    IN  Rat(a[1] * (b[2] \div g) + b[1] * (a[2] \div g), (a[2] \div g) * b[2])
RSub(a, b) == RAdd(a, <<-b[1], b[2]>>)
RAbs(a) == <<Abs(a[1]), a[2]>>
RMin(a, b) == IF RLt(b, a) THEN b ELSE a

-----------------------------------------------------------------------------
(* Characters and strings. *)

Ch(s, i) == SubSeq(s, i, i)
\* substr(pos) with a 0-based pos <= Len(s)
SubstrFrom(s, pos) == SubSeq(s, pos + 1, Len(s))
\* substr(pos, n): at most n characters from 0-based pos <= Len(s)
Substr(s, pos, n) ==
    SubSeq(s, pos + 1, IF pos + n > Len(s) THEN Len(s) ELSE pos + n)

\* std::isspace in the "C" locale (the vertical tab has no TLA+ escape)
IsSpace(c) == c \in {" ", "\t", "\n", "\r", "\f"}
IsDigit(c) == c \in {"0", "1", "2", "3", "4", "5", "6", "7", "8", "9"}
DigitVal(c) ==
    CASE c = "0" -> 0 [] c = "1" -> 1 [] c = "2" -> 2 [] c = "3" -> 3
      [] c = "4" -> 4 [] c = "5" -> 5 [] c = "6" -> 6 [] c = "7" -> 7
      [] c = "8" -> 8 [] c = "9" -> 9

\* Bind(v, F) is F(v) with v evaluated once: a local variable of the code
Bind(v, F(_)) == CHOOSE r \in {F(x) : x \in {v}} : TRUE

\* A for loop "for (i = lo; i <= hi; i++) st = Body(st, i)", split in halves so
\* that its evaluation nests to a depth logarithmic in the trip count; the
\* first half is a bound variable, hence computed before the second starts.
RECURSIVE ForLoop(_, _, _, _)
ForLoop(Body(_, _), st, lo, hi) ==
    IF lo > hi THEN st
    ELSE IF lo = hi THEN Body(st, lo)
    ELSE LET mid == (lo + hi) \div 2
         IN  CHOOSE r \in {ForLoop(Body, half, mid + 1, hi) :
                            half \in {ForLoop(Body, st, lo, mid)}} : TRUE

\* the least / greatest index in lo..hi that satisfies P, 0 if none does
RECURSIVE FirstIndex(_, _, _)
FirstIndex(P(_), lo, hi) ==
    IF lo > hi THEN 0
    ELSE IF lo = hi THEN (IF P(lo) THEN lo ELSE 0)
    ELSE LET mid == (lo + hi) \div 2
             l == FirstIndex(P, lo, mid)
         IN  IF l # 0 THEN l ELSE FirstIndex(P, mid + 1, hi)

RECURSIVE LastIndex(_, _, _)
LastIndex(P(_), lo, hi) ==
    IF lo > hi THEN 0
    ELSE IF lo = hi THEN (IF P(lo) THEN lo ELSE 0)
    ELSE LET mid == (lo + hi) \div 2
             r == LastIndex(P, mid + 1, hi)
         IN  IF r # 0 THEN r ELSE LastIndex(P, lo, mid)

\* std::string::find(char) from a 1-based start: the 1-based index, 0 for npos
FindCharFrom(s, c, i) == LET P(k) == Ch(s, k) = c IN FirstIndex(P, i, Len(s))
FindChar(s, c) == Call("FindCharFrom", <<s, c, 1>>)

\* std::string::find_first_of(set): 1-based index, 0 for npos
FindFirstOfFrom(s, set, i) == LET P(k) == Ch(s, k) \in set IN FirstIndex(P, i, Len(s))
FindFirstOf(s, set) == Call("FindFirstOfFrom", <<s, set, 1>>)

\* std::string::find(substring): 1-based index of the first occurrence, 0 for npos
FindStrFrom(s, t, i) ==
    LET P(k) == SubSeq(s, k, k + Len(t) - 1) = t
    IN  FirstIndex(P, i, Len(s) - Len(t) + 1)
FindStr(s, t) == Call("FindStrFrom", <<s, t, 1>>)
Contains(s, t) == Call("FindStr", <<s, t>>) # 0

-----------------------------------------------------------------------------
(* XFileParser::TrimWhitespace *)

TrimSet == {" ", "\t", "\n", "\r"}

\* find_first_not_of / find_last_not_of
FirstNotOf(s, set, i) == LET P(k) == Ch(s, k) \notin set IN FirstIndex(P, i, Len(s))
LastNotOf(s, set, i) == LET P(k) == Ch(s, k) \notin set IN LastIndex(P, 1, i)

TrimWhitespace(str) ==
    LET start == FirstNotOf(str, TrimSet, 1)
    IN  IF start = 0 THEN ""
        ELSE SubSeq(str, start, LastNotOf(str, TrimSet, Len(str)))

-----------------------------------------------------------------------------
(* XFileUtils::RemoveComments, NormalizeWhitespace, PreprocessTextContent *)

\* one trip of the loop of RemoveComments.  mode is which of inString /
\* inLineComment / inBlockComment is set ("code" when none is); skip is set
\* when the trip before did the extra i++ over a two-character token
RemoveCommentsStep(content, st, i) ==
    LET c == Ch(content, i)
        next == IF i + 1 <= Len(content) THEN Ch(content, i + 1) ELSE "NUL"
        Go(mode, result, skip) == [mode |-> mode, result |-> result, skip |-> skip]
    IN  IF st.skip THEN Go(st.mode, st.result, FALSE)
        ELSE CASE st.mode = "string" ->
                    IF c = "\"" /\ (i = 1 \/ Ch(content, i - 1) # "\\")
                    THEN Go("code", st.result \o c, FALSE)
                    ELSE Go("string", st.result \o c, FALSE)
               [] st.mode = "line" ->
                    IF c = "\n" \/ c = "\r"
                    THEN Go("code", st.result \o c, FALSE)
                    ELSE Go("line", st.result, FALSE)
               [] st.mode = "block" ->
                    IF c = "*" /\ next = "/"
                    THEN Go("code", st.result, TRUE)
                    ELSE Go("block", st.result, FALSE)
               [] OTHER ->
                    IF c = "\""
                    THEN Go("string", st.result \o c, FALSE)
                    ELSE IF c = "/" /\ next = "/"
                    THEN Go("line", st.result, TRUE)
                    ELSE IF c = "/" /\ next = "*"
                    THEN Go("block", st.result, TRUE)
                    ELSE Go("code", st.result \o c, FALSE)

RemoveComments(content) ==
    LET Body(st, i) == RemoveCommentsStep(content, st, i)
    IN  ForLoop(Body, [mode |-> "code", result |-> "", skip |-> FALSE],
                1, Len(content)).result

NormalizeWhitespaceStep(content, st, i) ==
    IF IsSpace(Ch(content, i))
    THEN [result |-> IF st.lastWasSpace THEN st.result ELSE st.result \o " ",
          lastWasSpace |-> TRUE]
    ELSE [result |-> st.result \o Ch(content, i), lastWasSpace |-> FALSE]

NormalizeWhitespace(content) ==
    LET Body(st, i) == NormalizeWhitespaceStep(content, st, i)
    IN  ForLoop(Body, [result |-> "", lastWasSpace |-> FALSE], 1, Len(content)).result

PreprocessTextContent(content) == Call("NormalizeWhitespace", <<RemoveComments(content)>>)

-----------------------------------------------------------------------------
(* std::stoi / std::stof as used by XFileUtils::ParseInt, ParseFloat and the
   object parsers: leading white space is skipped, an optional sign and the
   longest run of digits is converted, what follows is ignored; no digit at
   all is std::invalid_argument (ok = FALSE).  Exponents, hexadecimal floats,
   inf/nan and overflow are outside the modelled inputs. *)

RECURSIVE DigitsEnd(_, _)
\* the index just past the run of digits that starts at i
DigitsEnd(s, i) == IF i <= Len(s) /\ IsDigit(Ch(s, i)) THEN DigitsEnd(s, i + 1) ELSE i

RECURSIVE DigitsValue(_, _, _, _)
DigitsValue(s, i, j, acc) ==
    IF i >= j THEN acc ELSE DigitsValue(s, i + 1, j, acc * 10 + DigitVal(Ch(s, i)))

RECURSIVE Pow10(_)
Pow10(k) == IF k = 0 THEN 1 ELSE 10 * Pow10(k - 1)

RECURSIVE SkipSpace(_, _)
SkipSpace(s, i) == IF i <= Len(s) /\ IsSpace(Ch(s, i)) THEN SkipSpace(s, i + 1) ELSE i

StoI(s) ==
    Bind(SkipSpace(s, 1), LAMBDA b :
    Bind(IF b <= Len(s) /\ Ch(s, b) \in {"-", "+"} THEN b + 1 ELSE b, LAMBDA d :
    Bind(DigitsEnd(s, d), LAMBDA e :
        IF e = d THEN [ok |-> FALSE, val |-> 0]
        ELSE [ok |-> TRUE,
              val |-> IF b <= Len(s) /\ Ch(s, b) = "-"
                      THEN -DigitsValue(s, d, e, 0) ELSE DigitsValue(s, d, e, 0)])))

\* the value of the digits [d, e) . [f, g) as a rational
Decimal(s, d, e, f, g) ==
    IF f > e
    THEN Bind(Pow10(g - f), LAMBDA scale :
              Rat(DigitsValue(s, d, e, 0) * scale + DigitsValue(s, f, g, 0), scale))
    ELSE RInt(DigitsValue(s, d, e, 0))

StoF(s) ==
    Bind(SkipSpace(s, 1), LAMBDA b :
    Bind(IF b <= Len(s) /\ Ch(s, b) \in {"-", "+"} THEN b + 1 ELSE b, LAMBDA d :
    Bind(DigitsEnd(s, d), LAMBDA e :
    Bind(IF e <= Len(s) /\ Ch(s, e) = "." THEN e + 1 ELSE e, LAMBDA f :
    Bind(IF f > e THEN DigitsEnd(s, f) ELSE e, LAMBDA g :
        IF e = d /\ g = f THEN [ok |-> FALSE, val |-> <<0, 1>>]
        ELSE Bind(Decimal(s, d, e, f, g), LAMBDA mag :
                 [ok |-> TRUE,
                  val |-> IF b <= Len(s) /\ Ch(s, b) = "-"
                          THEN <<-mag[1], mag[2]>> ELSE mag]))))))

\* XFileUtils::ParseFloat / ParseInt: success flag and value, 0 on failure
ParseFloat(str) == Call("StoF", <<str>>)
ParseInt(str) == Call("StoI", <<str>>)

-----------------------------------------------------------------------------
(* std::getline(stream, token, delim) on a std::stringstream over s.  The
   stream is [pos, fail]: pos is the 1-based index of the next character,
   fail is the stream's failbit.  A call on a failed or exhausted stream
   extracts nothing and sets failbit. *)

GetlineDelim(s, st, delim) ==
    IF st.fail \/ st.pos > Len(s)
    THEN [ok |-> FALSE, token |-> "", st |-> [pos |-> st.pos, fail |-> TRUE]]
    ELSE LET k == Call("FindCharFrom", <<s, delim, st.pos>>)
         IN  IF k = 0
             THEN [ok |-> TRUE, token |-> SubSeq(s, st.pos, Len(s)),
                   st |-> [pos |-> Len(s) + 1, fail |-> FALSE]]
             ELSE [ok |-> TRUE, token |-> SubSeq(s, st.pos, k - 1),
                   st |-> [pos |-> k + 1, fail |-> FALSE]]

\* the first lines of ParseFloatArray / ParseIntArray: trim, then drop one
\* trailing ';' or ','
CleanArrayData(data) ==
    LET cleanData == Call("TrimWhitespace", <<data>>)
    IN  IF cleanData # "" /\ Ch(cleanData, Len(cleanData)) \in {";", ","}
        THEN SubSeq(cleanData, 1, Len(cleanData) - 1)
        ELSE cleanData

RECURSIVE ParseFloatArrayLoop(_, _, _)
ParseFloatArrayLoop(s, st, result) ==
    LET a == Call("GetlineDelim", <<s, st, ";">>)
        b == IF a.ok THEN a ELSE Call("GetlineDelim", <<s, a.st, ",">>)
        token == Call("TrimWhitespace", <<b.token>>)
        v == Call("ParseFloat", <<token>>)
    IN  IF ~b.ok THEN result
        ELSE Call("ParseFloatArrayLoop", <<s, b.st,
                 IF token # "" /\ v.ok THEN Append(result, v.val) ELSE result>>)

ParseFloatArray(data) ==
    Call("ParseFloatArrayLoop", <<CleanArrayData(data), [pos |-> 1, fail |-> FALSE], <<>>>>)

RECURSIVE ParseIntArrayLoop(_, _, _)
ParseIntArrayLoop(s, st, result) ==
    LET a == Call("GetlineDelim", <<s, st, ";">>)
        b == IF a.ok THEN a ELSE Call("GetlineDelim", <<s, a.st, ",">>)
        token == Call("TrimWhitespace", <<b.token>>)
        v == Call("ParseInt", <<token>>)
    IN  IF ~b.ok THEN result
        ELSE Call("ParseIntArrayLoop", <<s, b.st,
                 IF token # "" /\ v.ok THEN Append(result, v.val) ELSE result>>)

ParseIntArray(data) ==
    Call("ParseIntArrayLoop", <<CleanArrayData(data), [pos |-> 1, fail |-> FALSE], <<>>>>)

-----------------------------------------------------------------------------
(* The data model (XFileData.h). *)

Zero3 == <<RInt(0), RInt(0), RInt(0)>>

XVertex == [position |-> Zero3, boneIndices |-> <<>>, boneWeights |-> <<>>]
XFace == [indices |-> <<0, 0, 0>>, materialIndex |-> -1]
XMaterial == [name |-> "", diffuseColor |-> Zero3, diffuseTexture |-> ""]
XKeyframe ==
    [time |-> RInt(0), position |-> Zero3,
     rotation |-> <<RInt(0), RInt(0), RInt(0), RInt(1)>>,
     scale |-> <<RInt(1), RInt(1), RInt(1)>>]
XAnimationSet ==
    [name |-> "", duration |-> RInt(0), ticksPerSecond |-> RInt(4800),
     keyframes |-> <<>>, boneKeyframes |-> <<>>]
XMeshData ==
    [vertices |-> <<>>, faces |-> <<>>, materials |-> <<>>, bones |-> <<>>,
     animations |-> <<>>, globalTicksPerSecond |-> RInt(4800), hasTimingInfo |-> FALSE]
XFileHeader ==
    [format |-> "TEXT", majorVersion |-> 3, minorVersion |-> 3,
     hasAnimationTimingInfo |-> FALSE, ticksPerSecond |-> RInt(4800)]
XFileData ==
    [header |-> XFileHeader, meshData |-> XMeshData, meshes |-> <<>>,
     parseSuccessful |-> FALSE, parseErrors |-> <<>>, parseWarnings |-> <<>>]

-----------------------------------------------------------------------------
(* Line helpers of the text parser. *)

ParseVertexLine(line) ==
    LET values == Call("ParseFloatArray", <<line>>)
    IN  IF Len(values) >= 3
        THEN [XVertex EXCEPT !.position = <<values[1], values[2], values[3]>>]
        ELSE XVertex

ParseFaceLine(line) ==
    LET values == Call("ParseIntArray", <<line>>)
    IN  IF Len(values) >= 4 /\ values[1] = 3
        THEN [XFace EXCEPT !.indices = <<values[2], values[3], values[4]>>]
        ELSE XFace

ParseKeyframeLine(line, keyType) ==
    LET values == Call("ParseFloatArray", <<line>>)
        k0 == IF Len(values) >= 1 THEN [XKeyframe EXCEPT !.time = values[1]]
              ELSE XKeyframe
    IN  CASE keyType = 0 /\ Len(values) >= 5 ->
               [k0 EXCEPT !.rotation = <<values[3], values[4], values[5], values[2]>>]
          [] keyType = 1 /\ Len(values) >= 4 ->
               [k0 EXCEPT !.scale = <<values[2], values[3], values[4]>>]
          [] keyType = 2 /\ Len(values) >= 4 ->
               [k0 EXCEPT !.position = <<values[2], values[3], values[4]>>]
          [] OTHER -> k0

\* ParseStringLine; front()/back() of an empty string are undefined, which the
\* caller sees as ub = TRUE
ParseStringLine(line) ==
    LET cleaned == Call("TrimWhitespace", <<line>>)
        n == Len(cleaned)
    IN  IF n = 0 THEN [ub |-> TRUE, val |-> ""]
        ELSE IF Ch(cleaned, 1) = "\"" /\ Ch(cleaned, n) = ";"
        THEN [ub |-> FALSE, val |-> Substr(cleaned, 1, n - 3)]
        ELSE IF Ch(cleaned, 1) = "\""
        THEN [ub |-> FALSE, val |-> Substr(cleaned, 1, n - 2)]
        ELSE [ub |-> FALSE, val |-> cleaned]

\* std::to_string of a natural number
RECURSIVE ToStr(_)
ToStr(n) ==
    LET d == Ch("0123456789", (n % 10) + 1)
    IN  IF n < 10 THEN d ELSE ToStr(n \div 10) \o d

-----------------------------------------------------------------------------
(* The object parsers of XFileParser.  The std::stringstream they share is
   the sequence of its lines (as std::getline(stream, line) yields them) and
   pos, the index of the next line; getline fails when pos > Len(lines).
   Every parser returns            
     ret    what the C++ function returns
     threw  an exception left the function (std::stoi, reserve of a negative count)
     ub     the function ran into undefined behaviour
     pos    the stream position afterwards
     ln     lineNumber_ afterwards
     md     parsedData_.meshData afterwards *)

RECURSIVE SplitLinesFrom(_, _, _)
SplitLinesFrom(s, st, acc) ==
    LET g == Call("GetlineDelim", <<s, st, "\n">>)
    IN  IF g.ok THEN Call("SplitLinesFrom", <<s, g.st, Append(acc, g.token)>>) ELSE acc
SplitLines(s) == Call("SplitLinesFrom", <<s, [pos |-> 1, fail |-> FALSE], <<>>>>)

PR(ret, threw, pos, ln, md) ==
    [ret |-> ret, threw |-> threw, ub |-> FALSE, pos |-> pos, ln |-> ln, md |-> md]

\* the change of braceCount over one line: +1 for each '{', -1 for each '}'
BraceDelta(line) ==
    LET Body(n, i) == IF Ch(line, i) = "{" THEN n + 1
                      ELSE IF Ch(line, i) = "}" THEN n - 1 ELSE n
    IN  ForLoop(Body, 0, 1, Len(line))

RECURSIVE SkipLoop(_, _, _, _)
\* while (std::getline(stream, line) && braceCount > 0): the line is extracted
\* before braceCount is tested
SkipLoop(lines, pos, ln, braceCount) ==
    IF pos > Len(lines) THEN [pos |-> pos, ln |-> ln]
    ELSE IF braceCount > 0
    THEN Call("SkipLoop", <<lines, pos + 1, ln + 1, braceCount + Call("BraceDelta", <<lines[pos]>>)>>)
    ELSE [pos |-> pos + 1, ln |-> ln]

SkipToClosingBrace(lines, pos, ln, md) ==
    LET r == Call("SkipLoop", <<lines, pos, ln, 1>>)
    IN  PR(TRUE, FALSE, r.pos, r.ln, md)

\* the part of a count line before its first ';' (the whole line without one)
BeforeSemicolon(line) ==
    LET semicolon == Call("FindChar", <<line, ";">>)
    IN  IF semicolon # 0 THEN SubSeq(line, 1, semicolon - 1) ELSE line

RECURSIVE ReadVertices(_, _, _, _, _)
ReadVertices(lines, pos, ln, md, left) ==
    IF left <= 0 THEN PR(TRUE, FALSE, pos, ln, md)
    ELSE IF pos > Len(lines) THEN PR(FALSE, FALSE, pos, ln, md)
    ELSE Call("ReadVertices", <<lines, pos + 1, ln + 1,
             [md EXCEPT !.vertices = Append(@, Call("ParseVertexLine", <<lines[pos]>>))], left - 1>>)

RECURSIVE ReadFaces(_, _, _, _, _)
ReadFaces(lines, pos, ln, md, left) ==
    IF left <= 0 THEN PR(TRUE, FALSE, pos, ln, md)
    ELSE IF pos > Len(lines) THEN PR(FALSE, FALSE, pos, ln, md)
    ELSE Call("ReadFaces", <<lines, pos + 1, ln + 1,
             [md EXCEPT !.faces = Append(@, Call("ParseFaceLine", <<lines[pos]>>))], left - 1>>)

NestedMeshNames ==
    {"MeshMaterialList", "MeshNormals", "MeshTextureCoords", "XSkinMeshHeader",
     "SkinWeights"}

RECURSIVE MeshNestedLoop(_, _, _, _)
MeshNestedLoop(lines, pos, ln, md) ==
    IF pos > Len(lines) THEN PR(TRUE, FALSE, pos, ln, md)
    ELSE LET line == Call("TrimWhitespace", <<lines[pos]>>)
         IN  IF line = "}" THEN PR(TRUE, FALSE, pos + 1, ln + 1, md)
             ELSE IF \E n \in NestedMeshNames : Call("Contains", <<line, n>>)
             THEN LET k == Call("SkipToClosingBrace", <<lines, pos + 1, ln + 1, md>>)
                  IN  Call("MeshNestedLoop", <<lines, k.pos, k.ln, md>>)
             ELSE Call("MeshNestedLoop", <<lines, pos + 1, ln + 1, md>>)

ParseMeshObject(lines, pos, ln, md) ==
    IF pos > Len(lines) THEN PR(FALSE, FALSE, pos, ln, md)
    ELSE
      LET vertexCount == Call("StoI", <<BeforeSemicolon(Call("TrimWhitespace", <<lines[pos]>>))>>)
      IN  IF ~vertexCount.ok \/ vertexCount.val < 0
          THEN PR(FALSE, TRUE, pos + 1, ln + 1, md)
          ELSE
            LET v == Call("ReadVertices", <<lines, pos + 1, ln + 1, md, vertexCount.val>>)
            IN  IF ~v.ret THEN v
                ELSE IF v.pos > Len(lines) THEN PR(FALSE, FALSE, v.pos, v.ln, v.md)
                ELSE
                  LET faceCount == Call("StoI", <<BeforeSemicolon(Call("TrimWhitespace", <<lines[v.pos]>>))>>)
                  IN  IF ~faceCount.ok \/ faceCount.val < 0
                      THEN PR(FALSE, TRUE, v.pos + 1, v.ln + 1, v.md)
                      ELSE
                        LET f == Call("ReadFaces", <<lines, v.pos + 1, v.ln + 1, v.md,
                                           faceCount.val>>)
                        IN  IF ~f.ret THEN f
                            ELSE Call("MeshNestedLoop", <<lines, f.pos, f.ln, f.md>>)

ParseFrameObject(lines, pos, ln, md) == Call("SkipToClosingBrace", <<lines, pos, ln, md>>)

\* line.substr(0, line.find(';')) trimmed and converted by std::stoi
CountField(line) ==
    LET semicolon == Call("FindChar", <<line, ";">>)
    IN  Call("StoI", <<TrimWhitespace(IF semicolon # 0 THEN SubSeq(line, 1, semicolon - 1)
                            ELSE line)>>)

RECURSIVE ReadKeys(_, _, _, _, _, _)
\* the keyframe loop of ParseAnimationKeyObject; md carries the animation set
ReadKeys(lines, pos, ln, animSet, keyType, left) ==
    IF left <= 0 THEN PR(TRUE, FALSE, pos, ln, animSet)
    ELSE IF pos > Len(lines) THEN PR(FALSE, FALSE, pos, ln, animSet)
    ELSE LET keyframe == Call("ParseKeyframeLine", <<lines[pos], keyType>>)
             a1 == [animSet EXCEPT !.keyframes = Append(@, keyframe)]
             a2 == IF RGt(keyframe.time, a1.duration)
                   THEN [a1 EXCEPT !.duration = keyframe.time] ELSE a1
         IN  Call("ReadKeys", <<lines, pos + 1, ln + 1, a2, keyType, left - 1>>)

RECURSIVE SkipToBraceLine(_, _, _)
\* while (std::getline(stream, line)) { lineNumber_++; if (Trim(line) == "}") break; }
SkipToBraceLine(lines, pos, ln) ==
    IF pos > Len(lines) THEN [pos |-> pos, ln |-> ln]
    ELSE IF Call("TrimWhitespace", <<lines[pos]>>) = "}" THEN [pos |-> pos + 1, ln |-> ln + 1]
    ELSE Call("SkipToBraceLine", <<lines, pos + 1, ln + 1>>)

\* md of the result is the animation set
ParseAnimationKeyObject(lines, pos, ln, animSet) ==
    IF pos > Len(lines) THEN PR(FALSE, FALSE, pos, ln, animSet)
    ELSE
      LET keyType == Call("CountField", <<lines[pos]>>)
      IN  IF ~keyType.ok THEN PR(FALSE, TRUE, pos + 1, ln + 1, animSet)
          ELSE IF pos + 1 > Len(lines) THEN PR(FALSE, FALSE, pos + 1, ln + 1, animSet)
          ELSE
            LET numKeys == Call("CountField", <<lines[pos + 1]>>)
            IN  IF ~numKeys.ok THEN PR(FALSE, TRUE, pos + 2, ln + 2, animSet)
                ELSE
                  LET k == Call("ReadKeys", <<lines, pos + 2, ln + 2, animSet, keyType.val,
                                    numKeys.val>>)
                      e == Call("SkipToBraceLine", <<lines, k.pos, k.ln>>)
                  IN  IF ~k.ret THEN k ELSE PR(TRUE, FALSE, e.pos, e.ln, k.md)

RECURSIVE ParseAnimationObject(_, _, _, _)
\* md of the result is the animation set
ParseAnimationObject(lines, pos, ln, animSet) ==
    IF pos > Len(lines) THEN PR(TRUE, FALSE, pos, ln, animSet)
    ELSE LET line == Call("TrimWhitespace", <<lines[pos]>>)
         IN  IF line = "}" THEN PR(TRUE, FALSE, pos + 1, ln + 1, animSet)
             ELSE IF Call("Contains", <<line, "AnimationKey">>) /\ Call("FindChar", <<line, "{">>) # 0
             THEN LET k == Call("ParseAnimationKeyObject", <<lines, pos + 1, ln + 1, animSet>>)
                  IN  IF k.threw THEN k
                      ELSE Call("ParseAnimationObject", <<lines, k.pos, k.ln, k.md>>)
             ELSE Call("ParseAnimationObject", <<lines, pos + 1, ln + 1, animSet>>)

RECURSIVE AnimationSetLoop(_, _, _, _)
AnimationSetLoop(lines, pos, ln, animSet) ==
    IF pos > Len(lines) THEN PR(TRUE, FALSE, pos, ln, animSet)
    ELSE LET line == Call("TrimWhitespace", <<lines[pos]>>)
         IN  IF line = "}" THEN PR(TRUE, FALSE, pos + 1, ln + 1, animSet)
             ELSE IF Call("Contains", <<line, "Animation">>) /\ Call("FindChar", <<line, "{">>) # 0
             THEN LET a == Call("ParseAnimationObject", <<lines, pos + 1, ln + 1, animSet>>)
                  IN  IF a.threw THEN a
                      ELSE Call("AnimationSetLoop", <<lines, a.pos, a.ln, a.md>>)
             ELSE Call("AnimationSetLoop", <<lines, pos + 1, ln + 1, animSet>>)

ParseAnimationSetObject(lines, pos, ln, md) ==
    LET animSet == [XAnimationSet EXCEPT
                       !.name = "Animation_" \o ToStr(Len(md.animations))]
        a == Call("AnimationSetLoop", <<lines, pos, ln, animSet>>)
    IN  IF a.threw THEN PR(FALSE, TRUE, a.pos, a.ln, md)
        ELSE PR(TRUE, FALSE, a.pos, a.ln,
                IF a.md.keyframes # <<>>
                THEN [md EXCEPT !.animations = Append(@, a.md)] ELSE md)

RECURSIVE MaterialLoop(_, _, _, _)
\* md of the result is the material; ub reports ParseStringLine's
MaterialLoop(lines, pos, ln, material) ==
    IF pos > Len(lines) THEN PR(TRUE, FALSE, pos, ln, material)
    ELSE LET line == Call("TrimWhitespace", <<lines[pos]>>)
         IN  IF line = "}" THEN PR(TRUE, FALSE, pos + 1, ln + 1, material)
             ELSE IF Call("Contains", <<line, "TextureFilename">>) /\ pos + 1 <= Len(lines)
             THEN LET t == Call("ParseStringLine", <<lines[pos + 1]>>)
                      m == Call("MaterialLoop", <<lines, pos + 2, ln + 2,
                               [material EXCEPT !.diffuseTexture = t.val]>>)
                  IN  [m EXCEPT !.ub = m.ub \/ t.ub]
             ELSE Call("MaterialLoop", <<lines, pos + 1, ln + 1, material>>)

ParseMaterialObject(lines, pos, ln, md) ==
    IF pos > Len(lines) THEN PR(FALSE, FALSE, pos, ln, md)
    ELSE
      LET values == Call("ParseFloatArray", <<lines[pos]>>)
          material == IF Len(values) >= 3
                      THEN [XMaterial EXCEPT
                               !.diffuseColor = <<values[1], values[2], values[3]>>]
                      ELSE XMaterial
          m == Call("MaterialLoop", <<lines, pos + 1, ln + 1, material>>)
      IN  [PR(TRUE, FALSE, m.pos, m.ln,
              [md EXCEPT !.materials = Append(@, m.md)]) EXCEPT !.ub = m.ub]

RECURSIVE DataObjectsLoop(_, _, _, _)
DataObjectsLoop(lines, pos, ln, md) ==
    IF pos > Len(lines) THEN PR(TRUE, FALSE, pos, ln, md)
    ELSE
      LET line == Call("TrimWhitespace", <<lines[pos]>>)
          objectType ==
              LET k == Call("FindFirstOf", <<line, {" ", "\t", "{"}>>)
              IN  Call("TrimWhitespace", <<IF k = 0 THEN line ELSE SubSeq(line, 1, k - 1)>>)
          r == CASE objectType = "Mesh" -> Call("ParseMeshObject", <<lines, pos + 1, ln + 1, md>>)
                 [] objectType = "Frame" -> Call("ParseFrameObject", <<lines, pos + 1, ln + 1, md>>)
                 [] objectType = "AnimationSet" ->
                        Call("ParseAnimationSetObject", <<lines, pos + 1, ln + 1, md>>)
                 [] objectType = "Material" ->
                        Call("ParseMaterialObject", <<lines, pos + 1, ln + 1, md>>)
                 [] OTHER -> Call("SkipToClosingBrace", <<lines, pos + 1, ln + 1, md>>)
      IN  IF line = "" \/ Ch(line, 1) = "/" \/ Substr(line, 0, 8) = "template"
          THEN Call("DataObjectsLoop", <<lines, pos + 1, ln + 1, md>>)
          ELSE IF Call("FindChar", <<line, "{">>) = 0
          THEN Call("DataObjectsLoop", <<lines, pos + 1, ln + 1, md>>)
          ELSE IF r.threw \/ ~r.ret THEN [r EXCEPT !.ret = FALSE]
          ELSE LET rest == Call("DataObjectsLoop", <<lines, r.pos, r.ln, r.md>>)
               IN  [rest EXCEPT !.ub = rest.ub \/ r.ub]

\* ParseDataObjects(content): lineNumber_ restarts at 0
ParseDataObjects(content, md) == Call("DataObjectsLoop", <<SplitLines(content), 1, 0, md>>)

-----------------------------------------------------------------------------
(* XMeshData::GetValidationErrors and IsValid.  An error is the message the
   code builds; a float inside a message is rendered num/den. *)

IntToStr(n) == IF n < 0 THEN "-" \o ToStr(-n) ELSE ToStr(n)
RatToStr(r) == IntToStr(r[1]) \o "/" \o IntToStr(r[2])

RECURSIVE FlatMap(_, _, _)
\* F(i) \o F(i+1) \o ... \o F(n)
FlatMap(F(_), i, n) == IF i > n THEN <<>> ELSE F(i) \o FlatMap(F, i + 1, n)

RECURSIVE SumWeights(_, _)
SumWeights(w, i) == IF i > Len(w) THEN RInt(0) ELSE RAdd(w[i], SumWeights(w, i + 1))

\* the index of the first keyframe that is earlier than its predecessor, 0 if none
RECURSIVE FirstOutOfOrder(_, _)
FirstOutOfOrder(kf, j) ==
    IF j > Len(kf) THEN 0
    ELSE IF RLt(kf[j].time, kf[j - 1].time) THEN j ELSE FirstOutOfOrder(kf, j + 1)

\* "Check material index" (XFileData.cpp:66)
MaterialIndexError(face, i, materialCount) ==
    IF face.materialIndex >= materialCount /\ face.materialIndex # -1
    THEN <<"Face " \o ToStr(i) \o " has invalid material index: "
           \o IntToStr(face.materialIndex)>>
    ELSE <<>>

\* i is the 0-based index the message names
FaceErrors(m, i) ==
    LET face == m.faces[i + 1]
        maxVertexIndex == Len(m.vertices) - 1
        IndexError(j) ==
            IF face.indices[j] < 0 \/ face.indices[j] > maxVertexIndex
            THEN <<"Face " \o ToStr(i) \o " has invalid vertex index: "
                   \o IntToStr(face.indices[j])>>
            ELSE <<>>
    IN  FlatMap(IndexError, 1, 3) \o MaterialIndexError(face, i, Len(m.materials))

BoneErrors(m, i) ==
    LET bone == m.bones[i + 1]
    IN  (IF bone.parentIndex >= Len(m.bones)
         THEN <<"Bone '" \o bone.name \o "' has invalid parent index: "
                \o IntToStr(bone.parentIndex)>>
         ELSE <<>>)
        \o (IF bone.parentIndex = i
            THEN <<"Bone '" \o bone.name \o "' references itself as parent">>
            ELSE <<>>)

VertexBoneErrors(m, i) ==
    LET vertex == m.vertices[i + 1]
        IndexError(k) ==
            IF vertex.boneIndices[k] >= Len(m.bones)
            THEN <<"Vertex " \o ToStr(i) \o " references invalid bone index: "
                   \o IntToStr(vertex.boneIndices[k])>>
            ELSE <<>>
        weightSum == SumWeights(vertex.boneWeights, 1)
    IN  (IF Len(vertex.boneIndices) # Len(vertex.boneWeights)
         THEN <<"Vertex " \o ToStr(i)
                \o " has mismatched bone indices and weights count">>
         ELSE <<>>)
        \o FlatMap(IndexError, 1, Len(vertex.boneIndices))
        \o (IF vertex.boneWeights # <<>>
               /\ RGt(RAbs(RSub(weightSum, RInt(1))), Rat(1, 100))
            THEN <<"Vertex " \o ToStr(i)
                   \o " has bone weights that don't sum to 1.0: " \o RatToStr(weightSum)>>
            ELSE <<>>)

AnimationErrors(m, i) ==
    LET a == m.animations[i + 1]
        bad == FirstOutOfOrder(a.keyframes, 2)
        BoneRefError(k) ==
            IF \E b \in 1..Len(m.bones) : m.bones[b].name = a.boneKeyframes[k].bone
            THEN <<>>
            ELSE <<"Animation '" \o a.name \o "' references non-existent bone: "
                   \o a.boneKeyframes[k].bone>>
    IN  (IF a.name = "" THEN <<"Animation " \o ToStr(i) \o " has no name">> ELSE <<>>)
        \o (IF RLe(a.ticksPerSecond, RInt(0))
            THEN <<"Animation '" \o a.name \o "' has invalid ticksPerSecond: "
                   \o RatToStr(a.ticksPerSecond)>>
            ELSE <<>>)
        \o (IF a.keyframes = <<>> /\ a.boneKeyframes = <<>>
            THEN <<"Animation '" \o a.name \o "' has no keyframes">>
            ELSE <<>>)
        \o (IF bad # 0
            THEN <<"Animation '" \o a.name \o "' has keyframes out of order at index "
                   \o ToStr(bad - 1)>>
            ELSE <<>>)
        \o FlatMap(BoneRefError, 1, Len(a.boneKeyframes))

GetValidationErrors(m) ==
    LET FE(i) == FaceErrors(m, i - 1)
        BE(i) == BoneErrors(m, i - 1)
        VE(i) == VertexBoneErrors(m, i - 1)
        AE(i) == AnimationErrors(m, i - 1)
    IN  IF m.vertices = <<>> THEN <<"No vertices found in mesh">>
        ELSE (IF m.faces = <<>> THEN <<"No faces found in mesh">> ELSE <<>>)
             \o FlatMap(FE, 1, Len(m.faces))
             \o (IF m.bones # <<>>
                 THEN FlatMap(BE, 1, Len(m.bones)) \o FlatMap(VE, 1, Len(m.vertices))
                 ELSE <<>>)
             \o FlatMap(AE, 1, Len(m.animations))
             \o (IF m.hasTimingInfo /\ RLe(m.globalTicksPerSecond, RInt(0))
                 THEN <<"Invalid global ticks per second: "
                        \o RatToStr(m.globalTicksPerSecond)>>
                 ELSE <<>>)

IsValid(m) == Call("GetValidationErrors", <<m>>) = <<>>

\* XFileData::IsValid
FileDataIsValid(d) == d.parseSuccessful /\ IsValid(d.meshData)

-----------------------------------------------------------------------------
(* XFileParser: the top-level parse.  The parser instance is parsedData_
   (data) and lineNumber_ (ln); templates_ and the logger are not modelled. *)

\* the character code of c, as the header's digit arithmetic needs it
Printable ==
    " !\"#$%&'()*+,-./0123456789:;<=>?@ABCDEFGHIJKLMNOPQRSTUVWXYZ[\\]^_"
LowerCase == "abcdefghijklmnopqrstuvwxyz{|}~"
Ascii(c) ==
    CASE c = "\t" -> 9 [] c = "\n" -> 10 [] c = "\f" -> 12 [] c = "\r" -> 13
      [] Call("FindChar", <<LowerCase, c>>) > 0 -> Call("FindChar", <<LowerCase, c>>) + 96
      [] Call("FindChar", <<Printable, c>>) > 0 -> Call("FindChar", <<Printable, c>>) + 31
      [] OTHER -> -1

AddParseError(data, error) == [data EXCEPT !.parseErrors = Append(@, error)]
AddParseWarning(data, warning) == [data EXCEPT !.parseWarnings = Append(@, warning)]

\* ParseHeader: ok is the returned bool, data the model afterwards
ParseHeader(content, data) ==
    IF Len(content) < 16 \/ Substr(content, 0, 4) # "xof "
    THEN [ok |-> FALSE, data |-> data]
    ELSE
      LET formatStr == Substr(content, 8, 4)
          format == CASE formatStr = "txt " -> "TEXT"
                      [] formatStr = "bin " -> "BINARY"
                      [] formatStr \in {"tzip", "bzip"} -> "COMPRESSED"
                      [] OTHER -> "TEXT"
      IN  [ok |-> TRUE,
           data |-> [data EXCEPT
                        !.header.majorVersion = Ascii(Ch(content, 5)) - Ascii("0"),
                        !.header.minorVersion = Ascii(Ch(content, 7)) - Ascii("0"),
                        !.header.format = format]]

\* ParseTextFormat: preprocess, drop the 16 header bytes (substr(16) throws
\* std::out_of_range on a shorter string), parse the objects
ParseTextFormat(content, md) ==
    LET cleanContent == Call("PreprocessTextContent", <<content>>)
    IN  IF Len(cleanContent) < 16 THEN PR(FALSE, TRUE, 1, 0, md)
        ELSE Call("ParseDataObjects", <<SubstrFrom(cleanContent, 16), md>>)

ExtractTimingInformation(data) ==
    LET anims == data.meshData.animations
        found == {i \in 1..Len(anims) : RGt(anims[i].ticksPerSecond, RInt(0))}
        foundTiming == found # {}
        first == CHOOSE i \in found : \A j \in found : i <= j
        globalTicks == IF foundTiming THEN anims[first].ticksPerSecond ELSE RInt(4800)
    IN  [data EXCEPT
            !.meshData.globalTicksPerSecond = globalTicks,
            !.meshData.hasTimingInfo = foundTiming,
            !.header.hasAnimationTimingInfo = foundTiming,
            !.header.ticksPerSecond = globalTicks,
            !.meshData.animations =
                [i \in 1..Len(anims) |->
                    IF RLe(anims[i].ticksPerSecond, RInt(0))
                    THEN [anims[i] EXCEPT !.ticksPerSecond = globalTicks]
                    ELSE anims[i]]]

\* BuildSkeletonHierarchy: a bone with a parent name gets the index of the
\* first bone of that name (child lists are not part of the modelled bone)
BuildSkeletonHierarchy(data) ==
    LET bones == data.meshData.bones
        Parent(i) == {j \in 1..Len(bones) : bones[j].name = bones[i].parentName}
    IN  [data EXCEPT !.meshData.bones =
            [i \in 1..Len(bones) |->
                IF bones[i].parentName # "" /\ Parent(i) # {}
                THEN [bones[i] EXCEPT !.parentIndex =
                         (CHOOSE j \in Parent(i) : \A k \in Parent(i) : j <= k) - 1]
                ELSE bones[i]]]

RECURSIVE AppendAll(_, _, _)
AppendAll(seq, more, i) ==
    IF i > Len(more) THEN seq ELSE AppendAll(Append(seq, more[i]), more, i + 1)

\* ValidateParsedData: ok is the returned bool
ValidateParsedData(data) ==
    LET errors == Call("GetValidationErrors", <<data.meshData>>)
        anims == data.meshData.animations
        W(i) == (IF anims[i].keyframes = <<>> /\ anims[i].boneKeyframes = <<>>
                 THEN <<"Animation '" \o anims[i].name \o "' has no keyframes">>
                 ELSE <<>>)
                \o (IF RLe(anims[i].duration, RInt(0))
                    THEN <<"Animation '" \o anims[i].name
                           \o "' has zero or negative duration">>
                    ELSE <<>>)
    IN  [ok |-> errors = <<>>,
         data |-> [data EXCEPT
                      !.parseErrors = AppendAll(@, errors, 1),
                      !.parseWarnings = AppendAll(@, FlatMap(W, 1, Len(anims)), 1)]]

\* the value a top-level parse leaves: what it returned, the instance state
\* afterwards, and whether it ran into undefined behaviour
Outcome(ret, data, ln, ub) == [ret |-> ret, data |-> data, ln |-> ln, ub |-> ub]

ParseFromString(content, data, ln) ==
    IF content = ""
    THEN Outcome(FALSE, AddParseError(data, "Empty file content"), ln, FALSE)
    ELSE
      LET h == Call("ParseHeader", <<content, data>>)
          format == h.data.header.format
          t == Call("ParseTextFormat", <<content, h.data.meshData>>)
          parsed == [h.data EXCEPT !.meshData = t.md]
          post == Call("BuildSkeletonHierarchy", <<ExtractTimingInformation(parsed)>>)
          v == Call("ValidateParsedData", <<post>>)
      IN  IF ~h.ok
          THEN Outcome(FALSE, AddParseError(h.data, "Failed to parse file header"),
                       ln, FALSE)
          ELSE IF format = "BINARY"
          THEN Outcome(FALSE,
                       AddParseError(h.data,
                           "Binary format parsing not implemented in XFileParser, use BinaryXFileParser"),
                       ln, FALSE)
          ELSE IF format = "COMPRESSED"
          THEN Outcome(FALSE,
                       AddParseError(h.data, "Compressed .x files are not supported yet"),
                       ln, FALSE)
          ELSE IF t.threw
          THEN Outcome(FALSE, AddParseError(parsed, "Exception during parsing"),
                       t.ln, t.ub)
          ELSE IF ~t.ret
          THEN Outcome(FALSE, parsed, t.ln, t.ub)
          ELSE IF ~v.ok
          THEN Outcome(FALSE, AddParseError(v.data, "Parsed data validation failed"),
                       t.ln, t.ub)
          ELSE Outcome(TRUE, [v.data EXCEPT !.parseSuccessful = TRUE], t.ln, t.ub)

\* ResetParserState
ResetData == XFileData


-----------------------------------------------------------------------------
(* The inputs of the text parser: the contents the test suite writes to disk
   (tests/test_xfile_parser.cpp), files laid out one item per line, and the
   degenerate contents each early return of ParseFromString needs. *)

Header == "xof 0303txt 0032"

SIMPLE_MESH_X_FILE ==
    Header \o "\n\nMesh testMesh {\n    4;\n    0.0; 0.0; 0.0;,\n    1.0; 0.0; 0.0;,\n"
    \o "    1.0; 1.0; 0.0;,\n    0.0; 1.0; 0.0;;\n\n    2;\n    3; 0, 1, 2;,\n"
    \o "    3; 0, 2, 3;;\n}\n"

malformedContent ==
    Header \o "\n    Mesh {\n        // Missing vertex count and data\n    }\n    "

MaxVertices == 4
MaxFaces == 2

RECURSIVE VertexLines(_, _)
VertexLines(i, n) ==
    IF i >= n THEN "" ELSE ToStr(i) \o ".0; 0.0; 0.0;,\n" \o VertexLines(i + 1, n)

RECURSIVE FaceLines(_, _)
FaceLines(j, m) ==
    IF j >= m THEN "" ELSE "3; 0, 1, 2;,\n" \o FaceLines(j + 1, m)

\* a text file whose body is one Mesh block, one item per line, no blank line
MeshFile(n, m) ==
    Header \o "\nMesh {\n" \o ToStr(n) \o ";\n" \o VertexLines(0, n)
    \o ToStr(m) \o ";\n" \o FaceLines(0, m) \o "}\n"

MeshFileName(n, m) == "mesh_" \o ToStr(n) \o "_" \o ToStr(m) \o ".x"

MeshShapes == {<<n, m>> : n \in {3, MaxVertices}, m \in {1, MaxFaces}}

MaterialContent ==
    Header \o "\nMaterial testMaterial {\n1.0; 0.0; 0.0; 1.0;;\nTextureFilename {\n"
    \o "\"test_texture.jpg\";\n}\n}\n"

FrameContent == Header \o "\nFrame Root {\n}\n"

\* payloads of the compressed fixtures: 24 bytes without a "BZ" pair
Payload == "0123456789abcdefghijklmn"

TextFiles ==
    [path \in {"test_simple.x", "test_malformed.x", "header_only.x", "notes.txt",
               "binary.x"}
              \cup {MeshFileName(nm[1], nm[2]) : nm \in MeshShapes} |->
        CASE path = "test_simple.x" -> SIMPLE_MESH_X_FILE
          [] path = "test_malformed.x" -> malformedContent
          [] path = "header_only.x" -> Header
          [] path = "notes.txt" -> "not an x file"
          [] path = "binary.x" -> "xof 0303bin 0032" \o "binarypayload"
          [] OTHER -> LET nm == CHOOSE nm \in MeshShapes :
                                   path = MeshFileName(nm[1], nm[2])
                      IN  MeshFile(nm[1], nm[2])]

CompressedFiles ==
    [path \in {"packed.x", "packed_0302.x", "packed_short.x", "packed_bz20.x",
               "packed_bz19.x", "packed_empty.x", "zipped.x", "raw.bz2"} |->
        CASE path = "packed.x" -> "xof 0303bzip0032" \o Payload
          [] path = "packed_0302.x" -> "xof 0302bzip0032" \o Payload
          [] path = "packed_short.x" -> "xof 0302bzip0032" \o "0123456789"
          [] path = "packed_bz20.x" -> "xof 0303bzip0032" \o "0123BZh9" \o Payload
          [] path = "packed_bz19.x" -> "xof 0303bzip0032" \o "012BZh9" \o Payload
          [] path = "packed_empty.x" -> "xof 0303bzip0032"
          [] path = "zipped.x" -> "xof 0303tzip0032" \o Payload
          [] OTHER -> "BZh91AY&SY012345" \o Header \o " Mesh { }"]

\* the file system: the content of every file that exists
Files == TextFiles @@ CompressedFiles

Paths == DOMAIN Files \cup {"missing.x"}

\* std::ifstream: whether the file opens, and the bytes read from it
FileExists(filepath) == filepath \in DOMAIN Files
FileContent(filepath) == Files[filepath]

\* the strings handed to ParseFromString
Contents ==
    {"", "xof", Header, "xof 0303txt 00  ", SIMPLE_MESH_X_FILE, malformedContent,
     MaterialContent, FrameContent}

\* the fixtures of the one-item-per-line layout: path, vertex count, face count
MeshFixtures ==
    {[path |-> "test_simple.x", n |-> 4, m |-> 2]}
    \cup {[path |-> MeshFileName(nm[1], nm[2]), n |-> nm[1], m |-> nm[2]] :
             nm \in MeshShapes}

-----------------------------------------------------------------------------
(* XFileParser::ParseFile and the parser's actions. *)

\* XFileUtils::ValidateXFileSignature
ValidateXFileSignature(filepath) ==
    Call("FileExists", <<filepath>>) /\ Substr(Call("FileContent", <<filepath>>), 0, 4) = "xof "

IsValidXFile(filepath) == Call("ValidateXFileSignature", <<filepath>>)

ParseFile(filepath, data, ln) ==
    IF ~Call("IsValidXFile", <<filepath>>)
    THEN Outcome(FALSE,
                 AddParseError(ResetData, "Invalid or non-existent .x file: " \o filepath),
                 0, FALSE)
    ELSE Call("ParseFromString", <<FileContent(filepath), ResetData, 0>>)

MaxCalls == 3

\* the parser instance right after construction
ParserInit ==
    /\ parsedData = XFileData
    /\ lineNumber = 0
    /\ parseResult = FALSE
    /\ parseCalls = 0
    /\ lastCall = <<"none", "">>

\* a call whose run met undefined behaviour may return either value
Returned(o) == IF o.ub THEN BOOLEAN ELSE {o.ret}

CallParseFile(filepath) ==
    /\ parseCalls < MaxCalls
    /\ \E o \in {Call("ParseFile", <<filepath, parsedData, lineNumber>>)} :
           /\ parsedData' = o.data
           /\ lineNumber' = o.ln
           /\ parseResult' \in Returned(o)
    /\ parseCalls' = parseCalls + 1
    /\ lastCall' = <<"ParseFile", filepath>>

CallParseFromString(content) ==
    /\ parseCalls < MaxCalls
    /\ \E o \in {Call("ParseFromString", <<content, parsedData, lineNumber>>)} :
           /\ parsedData' = o.data
           /\ lineNumber' = o.ln
           /\ parseResult' \in Returned(o)
    /\ parseCalls' = parseCalls + 1
    /\ lastCall' = <<"ParseFromString", content>>


-----------------------------------------------------------------------------
(* XFileDecompressor.  A byte buffer is a string, one character per byte.  The
   zlib / bzip2 streams themselves are not decoded: what each decoder makes of
   a given buffer is the oracle, fixed per file:
     accepts  the file offsets from which TryMultipleDecompressionMethods
              yields accepted output
     bz2ok    DecompressBzip2 succeeds on the bzip2 stream found
     dxbzip   DecompressDirectXBzip succeeds on the payload
     lz       DecompressDirectXLZ succeeds on the payload
     deflate  DecompressRawDeflate succeeds on the payload *)

\* The signature predicates read data.size() and data[0] .. data[3]; At(i) is
\* data[i].  The 32-bit header of IsDirectXLZCompressed is kept as its two
\* 16-bit halves <<high, low>>.
\* size is the length of the buffer, head its first four bytes (read only when
\* the size test has passed)
IsZipCompressedAt(size, head) ==
    IF size < 4 THEN FALSE
    ELSE head[1] = 80 /\ head[2] = 75 /\ head[3] = 3 /\ head[4] = 4

IsDirectXLZCompressedAt(size, head) ==
    IF size < 8 THEN FALSE
    ELSE LET header == <<head[4] * 256 + head[3], head[2] * 256 + head[1]>>
         IN  \/ header = <<3, 34656>>       \* 0x00038760
             \/ header = <<259, 34656>>     \* 0x01038760
             \/ header = <<515, 34656>>     \* 0x02038760

\* on a buffer held as a string
HeadBytes(data) == [i \in 1..4 |-> Ascii(Ch(data, i))]

IsZipCompressed(data) == IsZipCompressedAt(Len(data), HeadBytes(data))

IsBzip2Compressed(data) ==
    Len(data) >= 4 /\ Ch(data, 1) = "B" /\ Ch(data, 2) = "Z"

IsDirectXLZCompressed(data) == IsDirectXLZCompressedAt(Len(data), HeadBytes(data))

\* on a buffer held as a sequence of byte values
IsZipCompressedBytes(bytes) ==
    IsZipCompressedAt(Len(bytes), bytes)

IsDirectXLZCompressedBytes(bytes) ==
    IsDirectXLZCompressedAt(Len(bytes), bytes)

DecompressZipped(data) == FALSE

OracleAccepts == {{}, {16}, {24}, {20, 28}, {32}}
\* what a successful decoder leaves in decompressedData: a binary .x file, or a
\* text one
DecompressedOutput == "xof 0303bin 0032" \o "decoded"
DecompressedText == "xof 0303txt 0032" \o " Mesh { }"
DecompressedOutputs == {DecompressedOutput, DecompressedText}

Oracles ==
    [accepts : OracleAccepts, bz2ok : BOOLEAN, dxbzip : BOOLEAN, lz : BOOLEAN,
     deflate : BOOLEAN, output : DecompressedOutputs]

\* on the bytes of input from offset on; an empty buffer is refused
TryMultipleDecompressionMethods(input, offset, oracle) ==
    offset < Len(input) /\ offset \in oracle.accepts

RECURSIVE Bzip0032Sweep(_, _, _)
\* for (offset = 16; offset <= 32 && offset < input.size(); offset += 4)
Bzip0032Sweep(input, offset, oracle) ==
    IF ~(offset <= 32 /\ offset < Len(input)) THEN [ok |-> FALSE, trace |-> <<>>]
    ELSE IF TryMultipleDecompressionMethods(input, offset, oracle)
    THEN [ok |-> TRUE, trace |-> <<<<"sweep", offset>>>>]
    ELSE LET rest == Call("Bzip0032Sweep", <<input, offset + 4, oracle>>)
         IN  [ok |-> rest.ok, trace |-> <<<<"sweep", offset>>>> \o rest.trace]

expectedHeader == "xof 0303bzip0032"

\* DecompressBzip0032 falling through to the offset sweep when the search
\* after the literal header is not accepted
DecompressBzip0032_LiteralThenSweep(input, oracle) ==
    IF Len(input) < 16 THEN [ok |-> FALSE, trace |-> <<>>]
    ELSE IF Substr(input, 0, Len(expectedHeader)) = expectedHeader
            /\ TryMultipleDecompressionMethods(input, Len(expectedHeader), oracle)
    THEN [ok |-> TRUE, trace |-> <<<<"literal", Len(expectedHeader)>>>>]
    ELSE IF Substr(input, 0, Len(expectedHeader)) = expectedHeader
    THEN Bind(Call("Bzip0032Sweep", <<input, 16, oracle>>), LAMBDA rest :
              [ok |-> rest.ok,
               trace |-> <<<<"literal", Len(expectedHeader)>>>> \o rest.trace])
    ELSE Call("Bzip0032Sweep", <<input, 16, oracle>>)

\* ok is the returned bool, trace the generalized searches made, in order
DecompressBzip0032(input, oracle) ==
    IF Len(input) < 16 THEN [ok |-> FALSE, trace |-> <<>>]
    ELSE IF Substr(input, 0, Len(expectedHeader)) = expectedHeader
    THEN [ok |-> TryMultipleDecompressionMethods(input, Len(expectedHeader), oracle),
          trace |-> <<<<"literal", Len(expectedHeader)>>>>]
    ELSE Call("Bzip0032Sweep", <<input, 16, oracle>>)

DecompressDirectXBzip(input, oracle) == Len(input) >= 20 /\ oracle.dxbzip
DecompressDirectXLZ(input, oracle) == Len(input) >= 8 /\ oracle.lz
DecompressRawDeflate(input, oracle) == oracle.deflate

-----------------------------------------------------------------------------
(* BinaryXFileParser *)

\* ParseBinaryData with the binary parse in place of the placeholder: true for
\* a buffer of 16 bytes or more that carries the signature
ParseBinaryData_Implemented(data) ==
    IF Len(data) < 16 THEN FALSE
    ELSE IF Substr(data, 0, 4) # "xof " THEN FALSE
    ELSE TRUE

ParseBinaryData(data) ==
    IF Len(data) < 16 THEN FALSE
    ELSE IF Substr(data, 0, 4) # "xof " THEN FALSE
    ELSE FALSE

offsetsToTry == <<16, 20, 24, 28, 32, 40, 48, 64>>

\* the result of ParseCompressedFile: the returned bool, the decompression
\* attempts in order, and parsedData_ of the binary parser afterwards
CR(ret, trace, data) ==
    [ret |-> ret, trace |-> trace, data |-> data, parser |-> "none", input |-> ""]

\* return ParseBinaryData(decompressedData)
ViaBinaryData(input, trace, data) ==
    [CR(Call("ParseBinaryData", <<input>>), trace, data) EXCEPT
        !.parser = "ParseBinaryData", !.input = input]

\* the proprietary path: DecompressBzip0032 on the whole file, then
\* DecompressDirectXBzip and DecompressDirectXLZ on the payload
ProprietaryPath(data, oracle, trace, parsed) ==
    LET b == Call("DecompressBzip0032", <<data, oracle>>)
        t1 == trace \o b.trace
        payload == SubstrFrom(data, 16)
        t2 == Append(t1, <<"dxbzip", 16>>)
        t3 == Append(t2, <<"lz", 16>>)
    IN  IF b.ok THEN ViaBinaryData(oracle.output, t1, parsed)
        ELSE IF ~(Len(data) > 16) THEN ViaBinaryData("", t1, parsed)
        ELSE IF DecompressDirectXBzip(payload, oracle)
        THEN ViaBinaryData(oracle.output, t2, parsed)
        ELSE IF DecompressDirectXLZ(payload, oracle)
        THEN ViaBinaryData(oracle.output, t3, parsed)
        ELSE ViaBinaryData("", t3, parsed)

\* the first fixed offset (index into offsetsToTry) that carries a bzip2
\* signature, 0 if none
FixedOffsetHit(data) ==
    LET P(k) == /\ Len(data) > offsetsToTry[k]
                /\ Call("IsBzip2Compressed", <<SubstrFrom(data, offsetsToTry[k])>>)
    IN  FirstIndex(P, 1, Len(offsetsToTry))

\* the first byte offset i < size - 2 with 'B' 'Z' that passes IsBzip2Compressed,
\* -1 if none
BzScanHit(data) ==
    LET P(k) == /\ Ch(data, k) = "B" /\ Ch(data, k + 1) = "Z"
                /\ Call("IsBzip2Compressed", <<SubstrFrom(data, k - 1)>>)
    IN  FirstIndex(P, 1, Len(data) - 2) - 1

BzipTagged(data, oracle, parsed) ==
    LET fixed == Call("FixedOffsetHit", <<data>>)
        scan == Call("BzScanHit", <<data>>)
        at == IF fixed # 0 THEN offsetsToTry[fixed] ELSE scan
        trace == <<<<"bzip2", at>>>>
    IN  IF fixed # 0 \/ scan >= 0
        THEN IF oracle.bz2ok THEN ViaBinaryData(oracle.output, trace, parsed)
             ELSE CR(FALSE, trace, parsed)
        ELSE Call("ProprietaryPath", <<data, oracle, <<>>, parsed>>)

PureCompression(data, oracle, parsed) ==
    LET rawData == SubstrFrom(data, 16)
        text == Call("ParseFromString", <<rawData, XFileData, 0>>)
    IN  IF ~(Len(data) > 16) THEN CR(FALSE, <<>>, parsed)
        ELSE IF Call("ParseBinaryData", <<rawData>>) THEN CR(TRUE, <<>>, parsed)
        ELSE IF Call("IsZipCompressed", <<rawData>>) /\ DecompressZipped(rawData)
        THEN ViaBinaryData(oracle.output, <<<<"zip", 16>>>>, parsed)
        ELSE IF DecompressRawDeflate(rawData, oracle)
        THEN ViaBinaryData(oracle.output, <<<<"deflate", 16>>>>, parsed)
        ELSE IF (Call("Contains", <<rawData, "template">>) \/ Call("Contains", <<rawData, "Mesh">>)
                 \/ Call("Contains", <<rawData, "{">>)) /\ text.ret
        THEN [CR(TRUE, <<<<"deflate", 16>>, <<"text", 16>>>>, text.data) EXCEPT
                 !.parser = "ParseFromString", !.input = rawData]
        ELSE CR(FALSE, <<<<"deflate", 16>>>>, parsed)

ParseCompressedFile(filepath, oracle, parsed) ==
    IF ~Call("FileExists", <<filepath>>) THEN CR(FALSE, <<>>, parsed)
    ELSE
      LET data == Call("FileContent", <<filepath>>)
          formatStr == Substr(data, 8, 4)
          compressedData == SubstrFrom(data, 16)
      IN  IF Len(data) < 16 THEN CR(FALSE, <<>>, parsed)
          ELSE IF Substr(data, 0, 4) = "xof "
          THEN CASE formatStr = "bzip" -> Call("BzipTagged", <<data, oracle, parsed>>)
                 [] formatStr = "tzip" ->
                      IF Len(data) > 16 /\ Call("IsZipCompressed", <<compressedData>>)
                         /\ DecompressZipped(compressedData)
                      THEN ViaBinaryData(oracle.output, <<<<"zip", 16>>>>,
                              parsed)
                      ELSE CR(FALSE, <<>>, parsed)
                 [] OTHER -> CR(FALSE, <<>>, parsed)
          ELSE IF Call("IsZipCompressed", <<data>>) \/ Call("IsBzip2Compressed", <<data>>)
                  \/ Call("IsDirectXLZCompressed", <<data>>)
          THEN Call("PureCompression", <<data, oracle, parsed>>)
          ELSE CR(FALSE, <<>>, parsed)


-----------------------------------------------------------------------------
(* EnhancedXFileParser: textParser_ is the XFileParser instance of the
   variables parsedData / lineNumber, binaryParser_ holds binaryData. *)

DetectDataFormat(data) ==
    IF Len(data) < 16 THEN "TEXT"
    ELSE IF Substr(data, 0, 4) # "xof "
    THEN IF Call("IsZipCompressed", <<data>>) \/ Call("IsBzip2Compressed", <<data>>)
            \/ Call("IsDirectXLZCompressed", <<data>>)
         THEN "COMPRESSED" ELSE "TEXT"
    ELSE LET formatStr == Substr(data, 8, 4)
         IN  CASE formatStr = "txt " -> "TEXT"
               [] formatStr = "bin " -> "BINARY"
               [] formatStr \in {"tzip", "bzip", "lz"} -> "COMPRESSED"
               [] OTHER -> "TEXT"

\* ReadFileToBytes yields an empty buffer for a file that cannot be opened
DetectFileFormat(filepath) ==
    IF ~Call("FileExists", <<filepath>>) \/ Call("FileContent", <<filepath>>) = "" THEN "TEXT"
    ELSE Call("DetectDataFormat", <<FileContent(filepath)>>)

\* the state a std::move leaves in an XFileData: containers emptied, scalars kept
MovedFrom(d) ==
    [d EXCEPT !.meshData.vertices = <<>>, !.meshData.faces = <<>>,
              !.meshData.materials = <<>>, !.meshData.bones = <<>>,
              !.meshData.animations = <<>>, !.meshes = <<>>,
              !.parseErrors = <<>>, !.parseWarnings = <<>>]

\* EnhancedXFileParser::GetParsedData: "text" or "binary", the parser chosen
RetrievalChoice(textData, binData) ==
    IF textData.meshes # <<>> THEN "text" ELSE "binary"

GetParsedData(textData, binData) ==
    IF RetrievalChoice(textData, binData) = "text" THEN textData ELSE binData

\* the model the object parsers build from the body of a one-item-per-line
\* file when they are handed its lines
MeshModel(n, m) ==
    [XFileData EXCEPT
        !.meshData = Call("ParseDataObjects", <<SubstrFrom(MeshFile(n, m), 16), XMeshData>>).md,
        !.parseSuccessful = TRUE]

\* the models the text parser member is taken to hold when the facade's
\* retrieval is exercised: what this parser leaves for each file, and the
\* mesh models of the one-item-per-line files
HeldModels ==
    {XFileData} \cup {Call("ParseFile", <<f, XFileData, 0>>).data : f \in Paths}
    \cup {Call("MeshModel", <<nm[1], nm[2]>>) : nm \in MeshShapes}

NoRetrieval == [op |-> "none", model |-> XFileData, text |-> XFileData]

FacadeInit ==
    /\ parsedData \in HeldModels
    /\ lineNumber = 0
    /\ parseResult = FALSE
    /\ parseCalls = 0
    /\ lastCall = <<"none", "">>
    /\ binaryData = XFileData
    /\ facadeResult = FALSE
    /\ retrieved = NoRetrieval

\* EnhancedXFileParser::ParseFile
FacadeParseFile(filepath, oracle) ==
    /\ IF Call("DetectFileFormat", <<filepath>>) \in {"TEXT", "BINARY"}
       THEN \E o \in {Call("ParseFile", <<filepath, parsedData, lineNumber>>)} :
                /\ parsedData' = o.data
                /\ lineNumber' = o.ln
                /\ facadeResult' \in Returned(o)
                /\ UNCHANGED binaryData
       ELSE \E c \in {Call("ParseCompressedFile", <<filepath, oracle, binaryData>>)} :
                /\ binaryData' = c.data
                /\ facadeResult' = c.ret
                /\ UNCHANGED <<parsedData, lineNumber>>
    /\ lastCall' = <<"Facade::ParseFile", filepath>>
    /\ UNCHANGED <<parseResult, parseCalls, retrieved>>

FacadeGetParsedData ==
    /\ retrieved' = [op |-> "GetParsedData",
                     model |-> GetParsedData(parsedData, binaryData),
                     text |-> parsedData]
    /\ UNCHANGED <<parserVars, binaryData, facadeResult>>

FacadeTakeParsedData ==
    /\ retrieved' = [op |-> "TakeParsedData",
                     model |-> GetParsedData(parsedData, binaryData),
                     text |-> parsedData]
    /\ IF RetrievalChoice(parsedData, binaryData) = "text"
       THEN parsedData' = MovedFrom(parsedData) /\ UNCHANGED binaryData
       ELSE binaryData' = MovedFrom(binaryData) /\ UNCHANGED parsedData
    /\ UNCHANGED <<lineNumber, parseResult, parseCalls, lastCall, facadeResult>>

-----------------------------------------------------------------------------
(* BinaryReader.  size_t is modelled SizeBits wide: sums of size_t values are
   taken modulo SizeModulus, as the unsigned arithmetic of the code is. *)

SizeBits == 5
SizeModulus == 2 ^ SizeBits
SIZE_MAX == SizeModulus - 1
MaxBufferSize == 6

\* the fixed-width reads and the number of bytes each takes
FixedWidth ==
    [op \in {"ReadUInt8", "ReadUInt16", "ReadUInt32", "ReadUInt64"} |->
        CASE op = "ReadUInt8" -> 1 [] op = "ReadUInt16" -> 2
          [] op = "ReadUInt32" -> 4 [] OTHER -> 8]

\* position_ + n in size_t
SizeAdd(a, b) == (a + b) % SizeModulus

\* what a reader operation leaves: the outcome and position_
RD(outcome, pos) == [outcome |-> outcome, pos |-> pos]

\* ReadUInt8 tests position_ >= size_, the wider reads position_ + w > size_
ReadFixed(op, size, pos) ==
    IF op = "ReadUInt8"
    THEN IF pos >= size THEN {RD("out_of_range", pos)} ELSE {RD("ok", pos + 1)}
    ELSE IF SizeAdd(pos, FixedWidth[op]) > size THEN {RD("out_of_range", pos)}
    ELSE {RD("ok", SizeAdd(pos, FixedWidth[op]))}

\* ReadString / ReadBytes: past the check, a count that runs over the end of
\* the buffer makes the copy read outside it, which is undefined: the build
\* may throw from the allocation, crash, or carry on to position_ += n
ReadCounted(size, pos, n) ==
    IF SizeAdd(pos, n) > size THEN {RD("out_of_range", pos)}
    ELSE IF pos + n > size
    THEN {RD("length_error", pos), RD("crash", pos), RD("ok", SizeAdd(pos, n))}
    ELSE {RD("ok", SizeAdd(pos, n))}

Skip(size, pos, bytes) ==
    IF SizeAdd(pos, bytes) > size THEN {RD("out_of_range", pos)}
    ELSE {RD("ok", SizeAdd(pos, bytes))}

Seek(size, pos, position) ==
    IF position > size THEN {RD("out_of_range", pos)} ELSE {RD("ok", position)}

ReaderOps == DOMAIN FixedWidth \cup {"ReadString", "ReadBytes", "Skip", "Seek"}

ReaderApply(op, size, pos, n) ==
    CASE op \in DOMAIN FixedWidth -> ReadFixed(op, size, pos)
      [] op \in {"ReadString", "ReadBytes"} -> ReadCounted(size, pos, n)
      [] op = "Skip" -> Skip(size, pos, n)
      [] OTHER -> Seek(size, pos, n)

\* BinaryReader(data, size): position_ = 0
ReaderInit ==
    /\ rdSize \in 0..MaxBufferSize
    /\ rdPos = 0
    /\ rdOutcome = "none"
    /\ rdRequest = <<"none", 0, 0>>

\* one call on the reader; a crashed process makes no further call
ReaderCall(op, n) ==
    /\ rdOutcome # "crash"
    /\ \E r \in ReaderApply(op, rdSize, rdPos, n) :
          /\ rdOutcome' = r.outcome
          /\ rdPos' = r.pos
    /\ rdRequest' = <<op, n, rdPos>>
    /\ UNCHANGED rdSize

\* std::vector<float>::max_size(): PTRDIFF_MAX / sizeof(float); reserve
\* throws std::length_error above it
VectorMaxSize == (SIZE_MAX \div 2) \div 4

RECURSIVE ReadUInt32Loop(_, _, _, _)
\* the for loop of ReadFloatArray / ReadUInt32Array from index i on: each
\* element is one ReadUInt32, which moves position_ when it succeeds
ReadUInt32Loop(size, pos, i, count) ==
    IF i >= count THEN {RD("ok", pos)}
    ELSE UNION {IF r.outcome = "ok" THEN ReadUInt32Loop(size, r.pos, i + 1, count) ELSE {r} :
                   r \in ReadFixed("ReadUInt32", size, pos)}

ReadUInt32Array(size, pos, count) ==
    IF count > VectorMaxSize THEN {RD("length_error", pos)}
    ELSE ReadUInt32Loop(size, pos, 0, count)

\* ReadFloat is ReadUInt32 and a memcpy
ReadFloatArray(size, pos, count) == ReadUInt32Array(size, pos, count)

\* length is the value the four bytes at position_ hold
ReadLengthPrefixedString(size, pos, length) ==
    UNION {IF r.outcome = "ok" THEN ReadCounted(size, r.pos, length) ELSE {r} :
              r \in ReadFixed("ReadUInt32", size, pos)}

CompoundReaderOps == {"ReadFloatArray", "ReadUInt32Array", "ReadLengthPrefixedString"}

CompoundApply(op, size, pos, n) ==
    CASE op = "ReadFloatArray" -> ReadFloatArray(size, pos, n)
      [] op = "ReadUInt32Array" -> ReadUInt32Array(size, pos, n)
      [] OTHER -> ReadLengthPrefixedString(size, pos, n)

\* one call of an array read or of ReadLengthPrefixedString
ReaderCompoundCall(op, n) ==
    /\ rdOutcome # "crash"
    /\ \E r \in CompoundApply(op, rdSize, rdPos, n) :
          /\ rdOutcome' = r.outcome
          /\ rdPos' = r.pos
    /\ rdRequest' = <<op, n, rdPos>>
    /\ UNCHANGED rdSize

-----------------------------------------------------------------------------
(* XMeshData validation: the meshes handed to GetValidationErrors. *)

MaxMaterials == 2
\* how far below zero the material indices tried reach
MaxBelowZero == 3

Triangle(materialIndex) == [indices |-> <<0, 1, 2>>, materialIndex |-> materialIndex]

MaterialIndices == (-MaxBelowZero)..(MaxMaterials + 1)

MeshInputs ==
    {[XMeshData EXCEPT
         !.vertices = <<XVertex, XVertex, XVertex>>,
         !.faces = faces,
         !.materials = [i \in 1..k |-> XMaterial]] :
       faces \in {<<Triangle(a)>> : a \in MaterialIndices}
                 \cup {<<Triangle(a), Triangle(b)>> : a, b \in MaterialIndices},
       k \in 0..MaxMaterials}

MaxBones == 2

XBone(i) == [name |-> "bone" \o ToStr(i), parentName |-> "", parentIndex |-> -1]

\* the bone influences of a vertex: indices below, inside and past the bones,
\* weights that sum to 1, to less and to more
BoneIndexLists == {<<>>, <<-1>>, <<0>>, <<MaxBones>>, <<0, 1>>}
BoneWeightLists ==
    {<<>>, <<RInt(1)>>, <<Rat(1, 2)>>, <<Rat(1, 2), Rat(1, 2)>>, <<RInt(1), RInt(1)>>}

SkinnedMeshInputs ==
    {[XMeshData EXCEPT
         !.vertices = <<XVertex, [XVertex EXCEPT !.boneIndices = bi, !.boneWeights = bw],
                        XVertex>>,
         !.faces = <<Triangle(-1)>>,
         !.bones = [i \in 1..k |-> XBone(i - 1)]] :
       bi \in BoneIndexLists, bw \in BoneWeightLists, k \in 0..MaxBones}

MeshInit ==
    /\ mesh \in MeshInputs \cup SkinnedMeshInputs
    /\ validationErrors = <<>>
    /\ meshPhase = "built"

Validate ==
    /\ meshPhase = "built"
    /\ validationErrors' = GetValidationErrors(mesh)
    /\ meshPhase' = "validated"
    /\ UNCHANGED mesh

-----------------------------------------------------------------------------
(* AnimationTimingCorrector.  Floats are exact rationals; the log-only      *)
(* strings (detectionMethod, errorDescription) are not modelled.            *)

COMMON_TICK_RATES ==
    <<RInt(160), RInt(1000), RInt(2400), RInt(4800), RInt(9600),
      RInt(30), RInt(60), RInt(24), RInt(25), Rat(2997, 100)>>

MIN_REASONABLE_DURATION == Rat(5, 100)
MAX_REASONABLE_DURATION == RInt(600)
TIMING_TOLERANCE == Rat(1, 10)

\* std::abs(a - b) < 0.1f
Near(a, b) == RLt(RAbs(RSub(a, b)), Rat(1, 10))

ValidateAnimationDuration(durationSeconds) ==
    /\ RGe(durationSeconds, MIN_REASONABLE_DURATION)
    /\ RLe(durationSeconds, MAX_REASONABLE_DURATION)

IsReasonableDuration(durationSeconds) == ValidateAnimationDuration(durationSeconds)

\* durationScore of ScoreTickRate
DurationScore(durationSeconds) ==
    IF ~IsReasonableDuration(durationSeconds) THEN RInt(0)
    ELSE IF RGe(durationSeconds, Rat(1, 2)) /\ RLe(durationSeconds, RInt(60))
    THEN RInt(1)
    ELSE IF RGe(durationSeconds, Rat(1, 10)) /\ RLe(durationSeconds, RInt(300))
    THEN Rat(7, 10)
    ELSE Rat(3, 10)

\* commonRateBonus of ScoreTickRate
CommonRateBonus(tickRate) ==
    IF Near(tickRate, RInt(4800)) THEN Rat(3, 10)
    ELSE IF Near(tickRate, RInt(160)) THEN Rat(2, 10)
    ELSE IF Near(tickRate, RInt(1000)) THEN Rat(1, 10)
    ELSE RInt(0)

\* ScoreTickRate without the final std::min(1.0f, totalScore)
ScoreTickRate_Unclamped(tickRate, animation) ==
    IF RLe(animation.duration, RInt(0)) THEN RInt(0)
    ELSE RAdd(DurationScore(RDiv(animation.duration, tickRate)),
              CommonRateBonus(tickRate))

ScoreTickRate(tickRate, animation) ==
    IF RLe(animation.duration, RInt(0)) THEN RInt(0)
    ELSE RMin(RInt(1), RAdd(DurationScore(RDiv(animation.duration, tickRate)),
                            CommonRateBonus(tickRate)))

\* every path of the pattern analysis returns the default rate
AnalyzeKeyframePattern(keyframeTimes) == RInt(4800)

ExtractKeyframeTimes(animation) ==
    [i \in 1..Len(animation.keyframes) |-> animation.keyframes[i].time]

DetectTicksPerSecondFromKeyframes(animation) ==
    IF Len(animation.keyframes) < 2 THEN RInt(4800)
    ELSE AnalyzeKeyframePattern(ExtractKeyframeTimes(animation))

\* the comparator handed to std::sort
LikelierRate(a, b) ==
    IF Near(a, RInt(4800)) THEN TRUE
    ELSE IF Near(b, RInt(4800)) THEN FALSE
    ELSE IF Near(a, RInt(160)) THEN TRUE
    ELSE IF Near(b, RInt(160)) THEN FALSE
    ELSE RLt(a, b)

RECURSIVE InsertRate(_, _)
InsertRate(sorted, x) ==
    IF sorted = <<>> THEN <<x>>
    ELSE IF LikelierRate(x, sorted[1]) THEN <<x>> \o sorted
    ELSE <<sorted[1]>> \o InsertRate(Tail(sorted), x)

RECURSIVE SortRates(_, _)
SortRates(rates, i) ==
    IF i = 0 THEN <<>> ELSE InsertRate(SortRates(rates, i - 1), rates[i])

\* GetCandidateTickRates without its std::sort: the candidates in the order of
\* COMMON_TICK_RATES
GetCandidateTickRates_Unsorted(animation) ==
    Bind(DetectTicksPerSecondFromKeyframes(animation), LAMBDA keyframeBasedRate :
        IF animation.keyframes # <<>>
           /\ \A i \in 1..Len(COMMON_TICK_RATES) : COMMON_TICK_RATES[i] # keyframeBasedRate
        THEN Append(COMMON_TICK_RATES, keyframeBasedRate)
        ELSE COMMON_TICK_RATES)

GetCandidateTickRates(animation) ==
    Bind(DetectTicksPerSecondFromKeyframes(animation), LAMBDA keyframeBasedRate :
    Bind(IF animation.keyframes # <<>>
            /\ \A i \in 1..Len(COMMON_TICK_RATES) : COMMON_TICK_RATES[i] # keyframeBasedRate
         THEN Append(COMMON_TICK_RATES, keyframeBasedRate)
         ELSE COMMON_TICK_RATES, LAMBDA candidates :
        SortRates(candidates, Len(candidates))))

TimingAnalysis ==
    [detectedTicksPerSecond |-> RInt(4800), confidenceLevel |-> RInt(0),
     candidateTickRates |-> <<>>]

RECURSIVE BestRate(_, _, _, _)
\* the scoring loop: a candidate wins only with a strictly greater score
BestRate(candidateRates, animation, i, best) ==
    IF i > Len(candidateRates) THEN best
    ELSE Bind(ScoreTickRate(candidateRates[i], animation), LAMBDA score :
              BestRate(candidateRates, animation, i + 1,
                       IF RGt(score, best.score)
                       THEN [rate |-> candidateRates[i], score |-> score] ELSE best))

\* AnalyzeAnimationTiming without its first method: the declared rate is never
\* taken as it stands, the candidates are always scored
AnalyzeAnimationTiming_ScoredOnly(animation) ==
    IF animation.keyframes = <<>> THEN TimingAnalysis
    ELSE Bind(GetCandidateTickRates(animation), LAMBDA candidateRates :
         Bind(BestRate(candidateRates, animation, 1,
                       [rate |-> RInt(4800), score |-> RInt(0)]), LAMBDA best :
              [detectedTicksPerSecond |-> best.rate, confidenceLevel |-> best.score,
               candidateTickRates |-> candidateRates]))

AnalyzeAnimationTiming(animation) ==
    IF animation.keyframes = <<>> THEN TimingAnalysis
    ELSE IF RGt(animation.ticksPerSecond, RInt(0))
            /\ IsReasonableDuration(RDiv(animation.duration, animation.ticksPerSecond))
    THEN [TimingAnalysis EXCEPT !.detectedTicksPerSecond = animation.ticksPerSecond,
                                !.confidenceLevel = Rat(9, 10)]
    ELSE Bind(GetCandidateTickRates(animation), LAMBDA candidateRates :
         Bind(BestRate(candidateRates, animation, 1,
                       [rate |-> RInt(4800), score |-> RInt(0)]), LAMBDA best :
              [detectedTicksPerSecond |-> best.rate, confidenceLevel |-> best.score,
               candidateTickRates |-> candidateRates]))

TimingCorrectionResult ==
    [isValid |-> FALSE, originalDurationSeconds |-> RInt(0),
     correctedDurationSeconds |-> RInt(0), timingErrorSeconds |-> RInt(0),
     detectedTicksPerSecond |-> RInt(4800)]

ScaleKeyframes(keyframes, timeScale) ==
    [i \in 1..Len(keyframes) |->
        [keyframes[i] EXCEPT !.time = RMul(keyframes[i].time, timeScale)]]

\* the correction branch without the conversion of the keyframes: only the
\* rate is replaced
ApplyCorrection_RateOnly(animation, detected) ==
    IF ~RGt(RAbs(RSub(animation.ticksPerSecond, detected)), Rat(1, 10))
    THEN animation
    ELSE [animation EXCEPT !.ticksPerSecond = detected]

\* the animation as the correction branch leaves it
ApplyCorrection(animation, detected) ==
    Bind(RDiv(animation.ticksPerSecond, detected), LAMBDA timeScale :
        IF ~RGt(RAbs(RSub(animation.ticksPerSecond, detected)), Rat(1, 10))
        THEN animation
        ELSE IF animation.keyframes # <<>>
                /\ RGt(RAbs(RSub(timeScale, RInt(1))), Rat(1, 100))
        THEN [animation EXCEPT !.ticksPerSecond = detected,
                               !.keyframes = ScaleKeyframes(@, timeScale),
                               !.duration = RMul(@, timeScale)]
        ELSE [animation EXCEPT !.ticksPerSecond = detected])

\* CorrectAnimationTiming with a result validated on the corrected duration
\* alone, without the comparison of the timing error with TIMING_TOLERANCE
CorrectAnimationTiming_DurationOnly(animation) ==
    Bind(RDiv(animation.duration, animation.ticksPerSecond),
         LAMBDA originalDurationSeconds :
    Bind(AnalyzeAnimationTiming(animation).detectedTicksPerSecond, LAMBDA detected :
    Bind(ApplyCorrection(animation, detected), LAMBDA after :
    Bind(RDiv(after.duration, after.ticksPerSecond), LAMBDA correctedDurationSeconds :
    Bind(RAbs(RSub(originalDurationSeconds, correctedDurationSeconds)),
         LAMBDA timingErrorSeconds :
        [animation |-> after,
         result |-> [isValid |-> ValidateAnimationDuration(correctedDurationSeconds),
                     originalDurationSeconds |-> originalDurationSeconds,
                     correctedDurationSeconds |-> correctedDurationSeconds,
                     timingErrorSeconds |-> timingErrorSeconds,
                     detectedTicksPerSecond |-> detected]])))))

\* returns the result together with the animation as the call leaves it
CorrectAnimationTiming(animation) ==
    Bind(RDiv(animation.duration, animation.ticksPerSecond),
         LAMBDA originalDurationSeconds :
    Bind(AnalyzeAnimationTiming(animation).detectedTicksPerSecond, LAMBDA detected :
    Bind(ApplyCorrection(animation, detected), LAMBDA after :
    Bind(RDiv(after.duration, after.ticksPerSecond), LAMBDA correctedDurationSeconds :
    Bind(RAbs(RSub(originalDurationSeconds, correctedDurationSeconds)),
         LAMBDA timingErrorSeconds :
        [animation |-> after,
         result |-> [isValid |-> /\ ValidateAnimationDuration(correctedDurationSeconds)
                                 /\ RLe(timingErrorSeconds, TIMING_TOLERANCE),
                     originalDurationSeconds |-> originalDurationSeconds,
                     correctedDurationSeconds |-> correctedDurationSeconds,
                     timingErrorSeconds |-> timingErrorSeconds,
                     detectedTicksPerSecond |-> detected]])))))

ConvertKeyframeTiming(originalKeyframes, originalTicksPerSecond, targetTicksPerSecond) ==
    IF RGt(RAbs(RSub(originalTicksPerSecond, targetTicksPerSecond)), Rat(1, 10))
    THEN ScaleKeyframes(originalKeyframes,
                        RDiv(originalTicksPerSecond, targetTicksPerSecond))
    ELSE originalKeyframes

\* inputs of the timing corrector
MaxKeyframes == 3

KeyframeAt(t) == [XKeyframe EXCEPT !.time = RInt(t)]
KeyframeRun(n, step) == [i \in 1..n |-> KeyframeAt((i - 1) * step)]
KeyframeRuns == {KeyframeRun(n, step) : n \in 0..MaxKeyframes, step \in {1600, 2400}}

DeclaredRates == {RInt(1), RInt(30), RInt(4800)}
\* the rates converted between; 76801/16 = 4800.0625 lies within 0.1 of 4800
TickRates == DeclaredRates \cup {Rat(76801, 16)}
\* 18240 ticks at rate 30 are 608 s, over the range by more than the tolerance
Durations == {RInt(0), RInt(30), RInt(1600), RInt(4800), RInt(18240)}

\* boneKeyframes, the per-bone tracks: none, or one track of two keyframes
BoneTracks == {<<>>, <<[bone |-> "Bone01", keyframes |-> KeyframeRun(2, 1600)]>>}

Animations ==
    {[XAnimationSet EXCEPT !.name = "test_walk", !.duration = d,
                           !.ticksPerSecond = r, !.keyframes = ks,
                           !.boneKeyframes = bk] :
        d \in Durations, r \in DeclaredRates, ks \in KeyframeRuns, bk \in BoneTracks}

\* inputs of the timing analysis alone: any declared rate, zero and negative
\* included, and durations up to the 4,800,000 ticks of the broken test animation
AnalysisRates == {RInt(-30), RInt(0), RInt(1), RInt(30), RInt(4800)}
AnalysisDurations ==
    {RInt(-30), RInt(0), RInt(30), RInt(1600), RInt(4800), RInt(2880000), RInt(4800000)}

AnalysisAnimations ==
    {[XAnimationSet EXCEPT !.name = "test_broken", !.duration = d,
                           !.ticksPerSecond = r, !.keyframes = ks] :
        d \in AnalysisDurations, r \in AnalysisRates, ks \in KeyframeRuns}

NoTimingOut ==
    [op |-> "none", result |-> TimingCorrectionResult, analysis |-> TimingAnalysis,
     converted |-> <<>>, from |-> RInt(0), to |-> RInt(0)]

TimingInit ==
    /\ anim \in Animations
    /\ animBefore = anim
    /\ timingOut = NoTimingOut
    /\ timingPhase = "ready"

AnalysisInit ==
    /\ anim \in AnalysisAnimations
    /\ animBefore = anim
    /\ timingOut = NoTimingOut
    /\ timingPhase = "ready"

CallAnalyzeAnimationTiming ==
    /\ timingPhase = "ready"
    /\ timingOut' = [NoTimingOut EXCEPT !.op = "AnalyzeAnimationTiming",
                                        !.analysis = AnalyzeAnimationTiming(anim)]
    /\ timingPhase' = "done"
    /\ UNCHANGED <<anim, animBefore>>

CallCorrectAnimationTiming ==
    /\ timingPhase = "ready"
    /\ \E c \in {CorrectAnimationTiming(anim)} :
           /\ anim' = c.animation
           /\ timingOut' = [NoTimingOut EXCEPT !.op = "CorrectAnimationTiming",
                                               !.result = c.result]
    /\ timingPhase' = "done"
    /\ UNCHANGED animBefore

CallConvertKeyframeTiming(from, to) ==
    /\ timingPhase = "ready"
    /\ timingOut' = [NoTimingOut EXCEPT
                        !.op = "ConvertKeyframeTiming",
                        !.converted = ConvertKeyframeTiming(anim.keyframes, from, to),
                        !.from = from, !.to = to]
    /\ timingPhase' = "done"
    /\ UNCHANGED <<anim, animBefore>>

-----------------------------------------------------------------------------
(* Command line of the converter (main.cpp section of XFileData.cpp).       *)

ConversionOptions ==
    [inputFile |-> "", outputDirectory |-> "./output", verboseLogging |-> FALSE,
     strictMode |-> FALSE, validateTiming |-> TRUE, generateReport |-> TRUE,
     logLevel |-> "INFO"]

LogLevelOf ==
    [l \in {"debug", "info", "warning", "error"} |->
        CASE l = "debug" -> "DEBUG" [] l = "info" -> "INFO"
          [] l = "warning" -> "WARNING" [] OTHER -> "ERROR"]

CL(ret, exited, opts) == [ret |-> ret, exited |-> exited, options |-> opts]

RECURSIVE CommandLineLoop(_, _, _)
\* the for loop; args[i + 1] is argv[i] and Len(args) is argc
CommandLineLoop(args, i, opts) ==
    IF ~(i < Len(args)) THEN CL(opts.inputFile # "", FALSE, opts)
    ELSE LET arg == args[i + 1] IN
      CASE arg \in {"--help", "-h"} -> CL(FALSE, FALSE, opts)
        [] arg \in {"--version", "-v"} -> CL(FALSE, TRUE, opts)
        [] arg = "--verbose" ->
             CommandLineLoop(args, i + 1,
                 [opts EXCEPT !.verboseLogging = TRUE, !.logLevel = "DEBUG"])
        [] arg = "--strict" ->
             CommandLineLoop(args, i + 1, [opts EXCEPT !.strictMode = TRUE])
        [] arg = "--no-timing-validation" ->
             CommandLineLoop(args, i + 1, [opts EXCEPT !.validateTiming = FALSE])
        [] arg = "--no-report" ->
             CommandLineLoop(args, i + 1, [opts EXCEPT !.generateReport = FALSE])
        [] arg \in {"--output", "-o"} ->
             IF i + 1 < Len(args)
             THEN CommandLineLoop(args, i + 2, [opts EXCEPT !.outputDirectory = args[i + 2]])
             ELSE CL(FALSE, FALSE, opts)
        [] arg = "--log-level" ->
             IF i + 1 < Len(args)
             THEN LET levelStr == args[i + 2] IN
                  IF levelStr \in DOMAIN LogLevelOf
                  \* ++i takes the value, i++ and the loop's own i++ follow
                  THEN CommandLineLoop(args, i + 3,
                           [opts EXCEPT !.logLevel = LogLevelOf[levelStr]])
                  ELSE CL(FALSE, FALSE, opts)
             ELSE CL(FALSE, FALSE, opts)
        [] OTHER ->
             IF Ch(arg, 1) # "-"
             THEN IF opts.inputFile = ""
                  THEN CommandLineLoop(args, i + 1, [opts EXCEPT !.inputFile = arg])
                  ELSE CL(FALSE, FALSE, opts)
             ELSE CL(FALSE, FALSE, opts)

ParseCommandLine(args, opts) ==
    IF Len(args) < 2 THEN CL(FALSE, FALSE, opts) ELSE CommandLineLoop(args, 1, opts)

MaxArgs == 4

ArgWords ==
    {"--help", "-v", "--verbose", "--strict", "--no-timing-validation", "--no-report",
     "-o", "--log-level", "debug", "error", "model.x", "--bogus"}

RECURSIVE ArgLists(_)
ArgLists(n) ==
    IF n = 0 THEN {<<>>}
    ELSE LET shorter == ArgLists(n - 1)
         IN  shorter \cup {Append(a, w) : a \in {s \in shorter : Len(s) = n - 1},
                                          w \in ArgWords}

CommandLines == {<<"x2fbx-converter">> \o a : a \in ArgLists(MaxArgs)}

NoCliResult == [called |-> FALSE, ret |-> FALSE, exited |-> FALSE]

CliInit ==
    /\ argv \in CommandLines
    /\ options = ConversionOptions
    /\ cliResult = NoCliResult

\* main: ConversionOptions options; ParseCommandLine(argc, argv, options)
CallParseCommandLine ==
    /\ ~cliResult.called
    /\ \E r \in {ParseCommandLine(argv, options)} :
           /\ options' = r.options
           /\ cliResult' = [called |-> TRUE, ret |-> r.ret, exited |-> r.exited]
    /\ UNCHANGED argv

-----------------------------------------------------------------------------
(* BinaryXFileParser::ParseCompressedFile run on its own parser instance. *)

CompressedInputs == [path : Paths, oracle : Oracles]

CompressedInit ==
    /\ cfile \in CompressedInputs
    /\ cpc = "ready"
    /\ ctrace = <<>>
    /\ cresult = FALSE
    /\ chanded = <<"none", "">>

CallParseCompressedFile ==
    /\ cpc = "ready"
    /\ \E c \in {Call("ParseCompressedFile", <<cfile.path, cfile.oracle, binaryData>>)} :
           /\ ctrace' = c.trace
           /\ cresult' = c.ret
           /\ chanded' = <<c.parser, c.input>>
           /\ binaryData' = c.data
    /\ cpc' = "done"
    /\ UNCHANGED cfile

\* A call of one function of the parsers by another, by name.  Every such call
\* goes through this one recursive operator, which keeps the expression tree
\* TLC builds for an action linear in the size of the functions called.
Call(method, args) ==
    CASE method = "TrimWhitespace" -> TrimWhitespace(args[1])
      [] method = "RemoveComments" -> RemoveComments(args[1])
      [] method = "NormalizeWhitespace" -> NormalizeWhitespace(args[1])
      [] method = "PreprocessTextContent" -> PreprocessTextContent(args[1])
      [] method = "StoI" -> StoI(args[1])
      [] method = "StoF" -> StoF(args[1])
      [] method = "ParseFloat" -> ParseFloat(args[1])
      [] method = "ParseInt" -> ParseInt(args[1])
      [] method = "GetlineDelim" -> GetlineDelim(args[1], args[2], args[3])
      [] method = "CleanArrayData" -> CleanArrayData(args[1])
      [] method = "ParseFloatArrayLoop" -> ParseFloatArrayLoop(args[1], args[2], args[3])
      [] method = "ParseFloatArray" -> ParseFloatArray(args[1])
      [] method = "ParseIntArrayLoop" -> ParseIntArrayLoop(args[1], args[2], args[3])
      [] method = "ParseIntArray" -> ParseIntArray(args[1])
      [] method = "ParseVertexLine" -> ParseVertexLine(args[1])
      [] method = "ParseFaceLine" -> ParseFaceLine(args[1])
      [] method = "ParseKeyframeLine" -> ParseKeyframeLine(args[1], args[2])
      [] method = "ParseStringLine" -> ParseStringLine(args[1])
      [] method = "SplitLinesFrom" -> SplitLinesFrom(args[1], args[2], args[3])
      [] method = "SplitLines" -> SplitLines(args[1])
      [] method = "BraceDelta" -> BraceDelta(args[1])
      [] method = "SkipLoop" -> SkipLoop(args[1], args[2], args[3], args[4])
      [] method = "SkipToClosingBrace" -> SkipToClosingBrace(args[1], args[2], args[3], args[4])
      [] method = "BeforeSemicolon" -> BeforeSemicolon(args[1])
      [] method = "ReadVertices" -> ReadVertices(args[1], args[2], args[3], args[4], args[5])
      [] method = "ReadFaces" -> ReadFaces(args[1], args[2], args[3], args[4], args[5])
      [] method = "MeshNestedLoop" -> MeshNestedLoop(args[1], args[2], args[3], args[4])
      [] method = "ParseMeshObject" -> ParseMeshObject(args[1], args[2], args[3], args[4])
      [] method = "ParseFrameObject" -> ParseFrameObject(args[1], args[2], args[3], args[4])
      [] method = "CountField" -> CountField(args[1])
      [] method = "ReadKeys" -> ReadKeys(args[1], args[2], args[3], args[4], args[5], args[6])
      [] method = "SkipToBraceLine" -> SkipToBraceLine(args[1], args[2], args[3])
      [] method = "ParseAnimationKeyObject" -> ParseAnimationKeyObject(args[1], args[2], args[3], args[4])
      [] method = "ParseAnimationObject" -> ParseAnimationObject(args[1], args[2], args[3], args[4])
      [] method = "AnimationSetLoop" -> AnimationSetLoop(args[1], args[2], args[3], args[4])
      [] method = "ParseAnimationSetObject" -> ParseAnimationSetObject(args[1], args[2], args[3], args[4])
      [] method = "MaterialLoop" -> MaterialLoop(args[1], args[2], args[3], args[4])
      [] method = "ParseMaterialObject" -> ParseMaterialObject(args[1], args[2], args[3], args[4])
      [] method = "DataObjectsLoop" -> DataObjectsLoop(args[1], args[2], args[3], args[4])
      [] method = "ParseDataObjects" -> ParseDataObjects(args[1], args[2])
      [] method = "GetValidationErrors" -> GetValidationErrors(args[1])
      [] method = "ParseHeader" -> ParseHeader(args[1], args[2])
      [] method = "ParseTextFormat" -> ParseTextFormat(args[1], args[2])
      [] method = "ExtractTimingInformation" -> ExtractTimingInformation(args[1])
      [] method = "BuildSkeletonHierarchy" -> BuildSkeletonHierarchy(args[1])
      [] method = "ValidateParsedData" -> ValidateParsedData(args[1])
      [] method = "ParseFromString" -> ParseFromString(args[1], args[2], args[3])
      [] method = "FileExists" -> FileExists(args[1])
      [] method = "FileContent" -> FileContent(args[1])
      [] method = "ValidateXFileSignature" -> ValidateXFileSignature(args[1])
      [] method = "IsValidXFile" -> IsValidXFile(args[1])
      [] method = "ParseFile" -> ParseFile(args[1], args[2], args[3])
      [] method = "IsZipCompressed" -> IsZipCompressed(args[1])
      [] method = "IsBzip2Compressed" -> IsBzip2Compressed(args[1])
      [] method = "IsDirectXLZCompressed" -> IsDirectXLZCompressed(args[1])
      [] method = "Bzip0032Sweep" -> Bzip0032Sweep(args[1], args[2], args[3])
      [] method = "DecompressBzip0032" -> DecompressBzip0032(args[1], args[2])
      [] method = "ParseBinaryData" -> ParseBinaryData(args[1])
      [] method = "ProprietaryPath" -> ProprietaryPath(args[1], args[2], args[3], args[4])
      [] method = "FixedOffsetHit" -> FixedOffsetHit(args[1])
      [] method = "BzScanHit" -> BzScanHit(args[1])
      [] method = "BzipTagged" -> BzipTagged(args[1], args[2], args[3])
      [] method = "PureCompression" -> PureCompression(args[1], args[2], args[3])
      [] method = "ParseCompressedFile" -> ParseCompressedFile(args[1], args[2], args[3])
      [] method = "DetectDataFormat" -> DetectDataFormat(args[1])
      [] method = "DetectFileFormat" -> DetectFileFormat(args[1])
      [] method = "MeshModel" -> MeshModel(args[1], args[2])
      [] method = "FindStr" -> FindStr(args[1], args[2])
      [] method = "FindStrFrom" -> FindStrFrom(args[1], args[2], args[3])
      [] method = "Contains" -> Contains(args[1], args[2])
      [] method = "FindChar" -> FindChar(args[1], args[2])
      [] method = "FindCharFrom" -> FindCharFrom(args[1], args[2], args[3])
      [] method = "FindFirstOf" -> FindFirstOf(args[1], args[2])
      [] method = "FindFirstOfFrom" -> FindFirstOfFrom(args[1], args[2], args[3])

-----------------------------------------------------------------------------
(* The signature predicates of XFileDecompressor on byte buffers. *)

MaxSignatureLen == 9

\* the leading bytes tried: the ZIP signature, the three legacy LZ headers, and
\* near misses of each
SignatureHeads ==
    {<<80, 75, 3, 4>>, <<80, 75, 3, 5>>, <<80, 75, 4, 3>>,
     <<96, 135, 3, 0>>, <<96, 135, 3, 1>>, <<96, 135, 3, 2>>, <<96, 135, 3, 3>>,
     <<135, 96, 3, 0>>, <<0, 3, 135, 96>>, <<0, 0, 0, 0>>}

\* every head cut or zero-padded to every length up to MaxSignatureLen
SignatureBuffers ==
    {[i \in 1..n |-> IF i <= 4 THEN h[i] ELSE 0] :
        h \in SignatureHeads, n \in 0..MaxSignatureLen}

NoSignatureOut == [called |-> FALSE, zip |-> FALSE, lz |-> FALSE]

SignatureInit ==
    /\ sigData \in SignatureBuffers
    /\ sigOut = NoSignatureOut

CallSignaturePredicates ==
    /\ ~sigOut.called
    /\ sigOut' = [called |-> TRUE,
                  zip |-> IsZipCompressedBytes(sigData),
                  lz |-> IsDirectXLZCompressedBytes(sigData)]
    /\ UNCHANGED sigData

-----------------------------------------------------------------------------
(* AnimationTimingCorrector::CorrectAllAnimations *)

\* the for loop from index i on: the animations as left, the results pushed
RECURSIVE CorrectAllLoop(_, _, _)
CorrectAllLoop(animations, i, results) ==
    IF ~(i <= Len(animations)) THEN [animations |-> animations, results |-> results]
    ELSE Bind(CorrectAnimationTiming(animations[i]), LAMBDA c :
              CorrectAllLoop([animations EXCEPT ![i] = c.animation], i + 1,
                             Append(results, c.result)))

\* CorrectAllAnimations stopping at the first invalid result
CorrectAllAnimations_StopsAtInvalid(animations) ==
    LET RECURSIVE Loop(_, _, _)
        Loop(as, i, results) ==
            IF ~(i <= Len(as)) THEN [animations |-> as, results |-> results]
            ELSE Bind(CorrectAnimationTiming(as[i]), LAMBDA c :
                      IF ~c.result.isValid
                      THEN [animations |-> [as EXCEPT ![i] = c.animation],
                            results |-> Append(results, c.result)]
                      ELSE Loop([as EXCEPT ![i] = c.animation], i + 1,
                                Append(results, c.result)))
    IN  Loop(animations, 1, <<>>)

CorrectAllAnimations(animations) == CorrectAllLoop(animations, 1, <<>>)

MaxBatch == 3

\* the animations batched: the 1-second walk of the test suite, a 1-second
\* animation at 30 ticks per second, one without keyframes declaring 1 tick
\* per second (its correction is invalid), and one of duration 0
BatchAnimations ==
    {[XAnimationSet EXCEPT !.name = "walk", !.duration = RInt(4800),
                           !.ticksPerSecond = RInt(4800),
                           !.keyframes = KeyframeRun(MaxKeyframes, 2400)],
     [XAnimationSet EXCEPT !.name = "run", !.duration = RInt(30),
                           !.ticksPerSecond = RInt(30),
                           !.keyframes = KeyframeRun(2, 1600)],
     [XAnimationSet EXCEPT !.name = "broken", !.duration = RInt(30),
                           !.ticksPerSecond = RInt(1)],
     [XAnimationSet EXCEPT !.name = "still", !.duration = RInt(0),
                           !.ticksPerSecond = RInt(30),
                           !.keyframes = KeyframeRun(1, 1600)]}

RECURSIVE Batches(_)
Batches(n) ==
    IF n = 0 THEN {<<>>}
    ELSE LET shorter == Batches(n - 1)
         IN  shorter \cup {Append(b, a) : b \in {x \in shorter : Len(x) = n - 1},
                                          a \in BatchAnimations}

BatchInit ==
    /\ batch \in Batches(MaxBatch)
    /\ batchBefore = batch
    /\ batchOut = <<>>
    /\ batchPhase = "ready"

CallCorrectAllAnimations ==
    /\ batchPhase = "ready"
    /\ \E r \in {CorrectAllAnimations(batch)} :
           /\ batch' = r.animations
           /\ batchOut' = r.results
    /\ batchPhase' = "done"
    /\ UNCHANGED batchBefore

-----------------------------------------------------------------------------
(* Logger: the singleton, its mutex and its sinks, called from several
   threads.  A thread runs one operation; each step below is one statement of
   the operation, so that the statements of different threads interleave.
   pc values:
     gi_lock, gi_unlock    Logger::GetInstance, entered and left
     configure, open, warn, warn_endl, disable
                           Logger::Initialize after GetInstance
     set_console           Logger::EnableConsoleOutput
     level, lock, console, console_endl, file, file_endl, unlock
                           Logger::Log
     flush_lock, flush_unlock
                           Logger::Flush                                      *)

MaxThreads == 2
Threads == 1..MaxThreads
NoThread == 0

LogLevel == [DEBUG |-> 0, INFO |-> 1, WARNING |-> 2, ERROR |-> 3, CRITICAL |-> 4]

\* the operations a thread may run; canOpen is whether the log file opens
LoggerOps ==
    {[kind |-> "Log", level |-> l, canOpen |-> FALSE, enable |-> FALSE] :
        l \in {LogLevel.DEBUG, LogLevel.INFO, LogLevel.ERROR}}
    \cup {[kind |-> "Initialize", level |-> LogLevel.INFO, canOpen |-> c, enable |-> FALSE] :
            c \in BOOLEAN}
    \cup {[kind |-> "EnableConsoleOutput", level |-> LogLevel.INFO, canOpen |-> FALSE,
           enable |-> FALSE],
          [kind |-> "Flush", level |-> LogLevel.INFO, canOpen |-> FALSE, enable |-> FALSE]}

\* Logger::Logger and the static members: no instance yet, the mutex free
LoggerInit ==
    /\ logOp \in [Threads -> LoggerOps]
    /\ logPc = [t \in Threads |-> "gi_lock"]
    /\ logCalls = [t \in Threads |-> 0]
    /\ mutex_ = NoThread
    /\ instance_ = FALSE
    /\ currentLevel_ = LogLevel.INFO
    /\ enableConsole_ = TRUE
    /\ enableFile_ = TRUE
    /\ logFileOpen = FALSE
    /\ logSink = <<>>
    /\ relocked = FALSE

\* one write to a sink: which thread, which of its Log calls (0: not a Log
\* call), which part of the line, and who held the mutex at that moment
SinkWrite(t, sink, part, call) ==
    [thread |-> t, sink |-> sink, part |-> part, call |-> call, holder |-> mutex_]

\* std::lock_guard<std::mutex> lock(mutex_): blocks while another thread holds
\* the mutex; locking a std::mutex the thread already holds is recorded
Acquire(t) ==
    /\ mutex_ \in {NoThread, t}
    /\ relocked' = (relocked \/ mutex_ = t)
    /\ mutex_' = t

\* the level of the Log call a thread is in
CallLevel(t) == IF logOp[t].kind = "Log" THEN logOp[t].level ELSE LogLevel.INFO

\* the Log call is over: on to the next one of the operation, or done
AfterLog(t) ==
    /\ logCalls' = [logCalls EXCEPT ![t] = @ - 1]
    /\ logPc' = [logPc EXCEPT ![t] = IF logCalls[t] > 1 THEN "level" ELSE "done"]

GetInstanceEnter(t) ==
    /\ logPc[t] = "gi_lock"
    /\ Acquire(t)
    /\ instance_' = TRUE
    /\ logPc' = [logPc EXCEPT ![t] = "gi_unlock"]
    /\ UNCHANGED <<logOp, logCalls, currentLevel_, enableConsole_, enableFile_,
                   logFileOpen, logSink>>

GetInstanceReturn(t) ==
    /\ logPc[t] = "gi_unlock"
    /\ mutex_' = NoThread
    /\ logPc' = [logPc EXCEPT ![t] =
                    CASE logOp[t].kind = "Log" -> "level"
                      [] logOp[t].kind = "Initialize" -> "configure"
                      [] logOp[t].kind = "EnableConsoleOutput" -> "set_console"
                      [] OTHER -> "flush_lock"]
    /\ logCalls' = [logCalls EXCEPT ![t] =
                       CASE logOp[t].kind = "Log" -> 1
                         [] logOp[t].kind = "Initialize" -> 2
                         [] OTHER -> 0]
    /\ UNCHANGED <<logOp, instance_, currentLevel_, enableConsole_, enableFile_,
                   logFileOpen, logSink, relocked>>

\* logger.logFilePath_ = logFilePath; logger.currentLevel_ = level;
InitializeConfigure(t) ==
    /\ logPc[t] = "configure"
    /\ currentLevel_' = logOp[t].level
    /\ logPc' = [logPc EXCEPT ![t] = IF enableFile_ THEN "open" ELSE "level"]
    /\ UNCHANGED <<logOp, logCalls, mutex_, instance_, enableConsole_, enableFile_,
                   logFileOpen, logSink, relocked>>

\* logger.logFile_.open(...); if (!logger.logFile_.is_open())
InitializeOpen(t) ==
    /\ logPc[t] = "open"
    /\ logFileOpen' = (logFileOpen \/ logOp[t].canOpen)
    /\ logPc' = [logPc EXCEPT ![t] = IF logFileOpen' THEN "level" ELSE "warn"]
    /\ UNCHANGED <<logOp, logCalls, mutex_, instance_, currentLevel_, enableConsole_,
                   enableFile_, logSink, relocked>>

\* std::cerr << "Warning: Could not open log file: " << logFilePath
InitializeWarn(t) ==
    /\ logPc[t] = "warn"
    /\ logSink' = Append(logSink, SinkWrite(t, "cerr", "text", 0))
    /\ logPc' = [logPc EXCEPT ![t] = "warn_endl"]
    /\ UNCHANGED <<logOp, logCalls, mutex_, instance_, currentLevel_, enableConsole_,
                   enableFile_, logFileOpen, relocked>>

\* << std::endl;
InitializeWarnEndl(t) ==
    /\ logPc[t] = "warn_endl"
    /\ logSink' = Append(logSink, SinkWrite(t, "cerr", "endl", 0))
    /\ logPc' = [logPc EXCEPT ![t] = "disable"]
    /\ UNCHANGED <<logOp, logCalls, mutex_, instance_, currentLevel_, enableConsole_,
                   enableFile_, logFileOpen, relocked>>

\* logger.enableFile_ = false;
InitializeDisableFile(t) ==
    /\ logPc[t] = "disable"
    /\ enableFile_' = FALSE
    /\ logPc' = [logPc EXCEPT ![t] = "level"]
    /\ UNCHANGED <<logOp, logCalls, mutex_, instance_, currentLevel_, enableConsole_,
                   logFileOpen, logSink, relocked>>

\* void EnableConsoleOutput(bool enable) { enableConsole_ = enable; }
EnableConsoleOutput(t) ==
    /\ logPc[t] = "set_console"
    /\ enableConsole_' = logOp[t].enable
    /\ logPc' = [logPc EXCEPT ![t] = "done"]
    /\ UNCHANGED <<logOp, logCalls, mutex_, instance_, currentLevel_, enableFile_,
                   logFileOpen, logSink, relocked>>

\* if (level < currentLevel_) return;
LogLevelCheck(t) ==
    /\ logPc[t] = "level"
    /\ IF CallLevel(t) < currentLevel_
       THEN AfterLog(t)
       ELSE logPc' = [logPc EXCEPT ![t] = "lock"] /\ UNCHANGED logCalls
    /\ UNCHANGED <<logOp, mutex_, instance_, currentLevel_, enableConsole_, enableFile_,
                   logFileOpen, logSink, relocked>>

\* std::lock_guard<std::mutex> lock(mutex_); if (enableConsole_)
LogLock(t) ==
    /\ logPc[t] = "lock"
    /\ Acquire(t)
    /\ logPc' = [logPc EXCEPT ![t] = "console"]
    /\ UNCHANGED <<logOp, logCalls, instance_, currentLevel_, enableConsole_, enableFile_,
                   logFileOpen, logSink>>

ConsoleOf(level) == IF level >= LogLevel.ERROR THEN "cerr" ELSE "cout"

\* std::cerr << formattedMessage, or std::cout << formattedMessage
LogConsole(t) ==
    /\ logPc[t] = "console"
    /\ IF enableConsole_
       THEN /\ logSink' = Append(logSink, SinkWrite(t, ConsoleOf(CallLevel(t)), "text",
                                                    logCalls[t]))
            /\ logPc' = [logPc EXCEPT ![t] = "console_endl"]
       ELSE /\ logPc' = [logPc EXCEPT ![t] = "file"]
            /\ UNCHANGED logSink
    /\ UNCHANGED <<logOp, logCalls, mutex_, instance_, currentLevel_, enableConsole_,
                   enableFile_, logFileOpen, relocked>>

LogConsoleEndl(t) ==
    /\ logPc[t] = "console_endl"
    /\ logSink' = Append(logSink, SinkWrite(t, ConsoleOf(CallLevel(t)), "endl",
                                            logCalls[t]))
    /\ logPc' = [logPc EXCEPT ![t] = "file"]
    /\ UNCHANGED <<logOp, logCalls, mutex_, instance_, currentLevel_, enableConsole_,
                   enableFile_, logFileOpen, relocked>>

\* if (enableFile_ && logFile_.is_open()) logFile_ << formattedMessage
LogFile(t) ==
    /\ logPc[t] = "file"
    /\ IF enableFile_ /\ logFileOpen
       THEN /\ logSink' = Append(logSink, SinkWrite(t, "file", "text", logCalls[t]))
            /\ logPc' = [logPc EXCEPT ![t] = "file_endl"]
       ELSE /\ logPc' = [logPc EXCEPT ![t] = "unlock"]
            /\ UNCHANGED logSink
    /\ UNCHANGED <<logOp, logCalls, mutex_, instance_, currentLevel_, enableConsole_,
                   enableFile_, logFileOpen, relocked>>

\* << std::endl; logFile_.flush();
LogFileEndl(t) ==
    /\ logPc[t] = "file_endl"
    /\ logSink' = Append(logSink, SinkWrite(t, "file", "endl", logCalls[t]))
    /\ logPc' = [logPc EXCEPT ![t] = "unlock"]
    /\ UNCHANGED <<logOp, logCalls, mutex_, instance_, currentLevel_, enableConsole_,
                   enableFile_, logFileOpen, relocked>>

\* the lock_guard of Log goes out of scope
LogUnlock(t) ==
    /\ logPc[t] = "unlock"
    /\ mutex_' = NoThread
    /\ AfterLog(t)
    /\ UNCHANGED <<logOp, instance_, currentLevel_, enableConsole_, enableFile_,
                   logFileOpen, logSink, relocked>>

FlushLock(t) ==
    /\ logPc[t] = "flush_lock"
    /\ Acquire(t)
    /\ logPc' = [logPc EXCEPT ![t] = "flush_unlock"]
    /\ UNCHANGED <<logOp, logCalls, instance_, currentLevel_, enableConsole_, enableFile_,
                   logFileOpen, logSink>>

\* the three flushes, and the lock_guard of Flush goes out of scope
FlushUnlock(t) ==
    /\ logPc[t] = "flush_unlock"
    /\ mutex_' = NoThread
    /\ logPc' = [logPc EXCEPT ![t] = "done"]
    /\ UNCHANGED <<logOp, logCalls, instance_, currentLevel_, enableConsole_, enableFile_,
                   logFileOpen, logSink, relocked>>

-----------------------------------------------------------------------------
(* ParseIntArray, ParseFloatArray and ParseFaceLine on lines of numeric
   tokens.  A line is the tokens joined by separators and closed by a tail. *)

ArrayTokens == {<<"3", "0", "1", "2">>, <<"3", "2", "0", "1">>, <<"1.5", "0.0", "2.0">>}
Separators == {";", "; ", ", "}
Tails == {"", ";", ";;", ";,"}

RECURSIVE JoinTokens(_, _, _)
JoinTokens(tokens, seps, i) ==
    IF i = Len(tokens) THEN tokens[i]
    ELSE tokens[i] \o seps[i] \o JoinTokens(tokens, seps, i + 1)

ArrayLines ==
    UNION {{[tokens |-> t, line |-> JoinTokens(t, s, 1) \o tail] :
               s \in [1..(Len(t) - 1) -> Separators], tail \in Tails} : t \in ArrayTokens}

NoArrayOut == [op |-> "none", ints |-> <<>>, floats |-> <<>>, face |-> XFace]

ArrayInit ==
    /\ fnInput \in ArrayLines
    /\ fnOut = NoArrayOut

CallParseIntArray ==
    /\ fnOut.op = "none"
    /\ fnOut' = [NoArrayOut EXCEPT !.op = "ParseIntArray",
                                   !.ints = Call("ParseIntArray", <<fnInput.line>>)]
    /\ UNCHANGED fnInput

CallParseFloatArray ==
    /\ fnOut.op = "none"
    /\ fnOut' = [NoArrayOut EXCEPT !.op = "ParseFloatArray",
                                   !.floats = Call("ParseFloatArray", <<fnInput.line>>)]
    /\ UNCHANGED fnInput

CallParseFaceLine ==
    /\ fnOut.op = "none"
    /\ fnOut' = [NoArrayOut EXCEPT !.op = "ParseFaceLine",
                                   !.face = Call("ParseFaceLine", <<fnInput.line>>)]
    /\ UNCHANGED fnInput

-----------------------------------------------------------------------------
(* SkipToClosingBrace on the lines that follow the opening line of an object
   of unknown type. *)

MaxSkipLines == 4
SkipLineKinds == {"1;", "Inner {", "}", "Mesh m {"}
SkipBodies == UNION {[1..n -> SkipLineKinds] : n \in 1..MaxSkipLines}

NoSkipOut == [op |-> "none", pos |-> 0, ln |-> 0]

SkipInit ==
    /\ fnInput \in SkipBodies
    /\ fnOut = NoSkipOut

\* the stream stands at the first line of the body, lineNumber_ at 0
CallSkipToClosingBrace ==
    /\ fnOut.op = "none"
    /\ \E r \in {Call("SkipToClosingBrace", <<fnInput, 1, 0, XMeshData>>)} :
           fnOut' = [op |-> "SkipToClosingBrace", pos |-> r.pos, ln |-> r.ln]
    /\ UNCHANGED fnInput

-----------------------------------------------------------------------------
(* XFileDecompressor::ValidateDecompressedContent on decompressed buffers. *)

RECURSIVE Filler(_)
Filler(n) == IF n = 0 THEN "" ELSE "." \o Filler(n - 1)

\* buffer = head, filler, tail: lengths on both sides of 16 and of 100 bytes,
\* "template" inside, across and beyond the first 100 bytes
ContentHeads == {"", "xof ", "xo", "xof", " xof ", "template Mesh {"}
ContentFillers == {0, 1, 84, 92, 93, 100}
ContentTails == {"", "template", "template {", "x"}
DecompressedBuffers ==
    {h \o Filler(n) \o t : h \in ContentHeads, n \in ContentFillers, t \in ContentTails}

ValidateDecompressedContent(data) ==
    IF data = "" THEN FALSE
    ELSE LET start == Substr(data, 0, 16)
         IN  IF FindStr(start, "xof ") = 1 THEN TRUE
             ELSE IF Len(data) > 100 /\ FindStr(Substr(data, 0, 100), "template") # 0 THEN TRUE
             ELSE Len(data) >= 4 /\ Substr(data, 0, 4) = "xof "

NoValidateOut == [op |-> "none", valid |-> FALSE]

ValidateInit ==
    /\ fnInput \in DecompressedBuffers
    /\ fnOut = NoValidateOut

CallValidateDecompressedContent ==
    /\ fnOut.op = "none"
    /\ fnOut' = [op |-> "ValidateDecompressedContent",
                 valid |-> ValidateDecompressedContent(fnInput)]
    /\ UNCHANGED fnInput

-----------------------------------------------------------------------------
(* EnhancedXFileParser::DetectDataFormat on buffers held as byte values. *)

IsBzip2CompressedBytes(bytes) ==
    IF Len(bytes) < 4 THEN FALSE
    ELSE bytes[1] = 66 /\ bytes[2] = 90

XofBytes == <<120, 111, 102, 32>>       \* "xof "
LzLiteral == <<108, 122>>               \* "lz"

\* as if the tag were compared on its first two characters only
DetectDataFormatBytes_LzPrefix(bytes) ==
    IF Len(bytes) < 16 THEN "TEXT"
    ELSE IF SubSeq(bytes, 1, 4) # XofBytes
    THEN IF IsZipCompressedBytes(bytes) \/ IsBzip2CompressedBytes(bytes)
            \/ IsDirectXLZCompressedBytes(bytes)
         THEN "COMPRESSED" ELSE "TEXT"
    ELSE LET formatStr == SubSeq(bytes, 9, 12)
         IN  CASE formatStr = <<116, 120, 116, 32>> -> "TEXT"
               [] formatStr = <<98, 105, 110, 32>> -> "BINARY"
               [] formatStr \in {<<116, 122, 105, 112>>, <<98, 122, 105, 112>>}
                    \/ SubSeq(formatStr, 1, 2) = LzLiteral
                    -> "COMPRESSED"
               [] OTHER -> "TEXT"

\* the comparison formatStr == "lz" sets a four-character string against a
\* two-character one
DetectDataFormatBytes(bytes) ==
    IF Len(bytes) < 16 THEN "TEXT"
    ELSE IF SubSeq(bytes, 1, 4) # XofBytes
    THEN IF IsZipCompressedBytes(bytes) \/ IsBzip2CompressedBytes(bytes)
            \/ IsDirectXLZCompressedBytes(bytes)
         THEN "COMPRESSED" ELSE "TEXT"
    ELSE LET formatStr == SubSeq(bytes, 9, 12)
         IN  CASE formatStr = <<116, 120, 116, 32>> -> "TEXT"
               [] formatStr = <<98, 105, 110, 32>> -> "BINARY"
               [] formatStr \in {<<116, 122, 105, 112>>, <<98, 122, 105, 112>>, LzLiteral}
                    -> "COMPRESSED"
               [] OTHER -> "TEXT"

MaxFormatLen == 17
FormatHeads ==
    {XofBytes, <<120, 111, 102, 0>>, <<80, 75, 3, 4>>, <<80, 75, 3, 5>>,
     <<66, 90, 104, 57>>, <<66, 90, 0, 0>>, <<66, 122, 104, 57>>,
     <<96, 135, 3, 0>>, <<96, 135, 3, 1>>, <<96, 135, 3, 2>>, <<96, 135, 3, 3>>}
FormatTags ==
    {<<116, 120, 116, 32>>, <<98, 105, 110, 32>>, <<116, 122, 105, 112>>,
     <<98, 122, 105, 112>>, <<108, 122, 32, 32>>, <<108, 122, 0, 0>>,
     <<99, 111, 109, 32>>, <<84, 88, 84, 32>>}
FormatLengths == {0, 3, 4, 8, 15, 16, MaxFormatLen}
\* head, version "0303", tag, float size "0032", payload, cut to
\* every length of FormatLengths
FormatBuffers ==
    {SubSeq(h \o <<48, 51, 48, 51>> \o t \o <<48, 48, 51, 50>> \o <<10, 10, 10>>, 1, n) :
        h \in FormatHeads, t \in FormatTags, n \in FormatLengths}

NoFormatOut == [op |-> "none", format |-> "TEXT"]

FormatInit ==
    /\ fnInput \in FormatBuffers
    /\ fnOut = NoFormatOut

CallDetectDataFormat ==
    /\ fnOut.op = "none"
    /\ fnOut' = [op |-> "DetectDataFormat", format |-> DetectDataFormatBytes(fnInput)]
    /\ UNCHANGED fnInput

-----------------------------------------------------------------------------
(* XFileDecompressor::DecompressBzip2, built with HAVE_BZIP2, on a valid
   bzip2 stream.  The stream is held as its two sizes: compressedSize bytes
   that decompress to streamSize bytes. *)

MinCompressed == 40
MaxCompressed == 41
\* decompressed sizes up to MaxRatio times the compressed size
MaxRatio == 52

BzResult(ok, size, capacity) == [ok |-> ok, size |-> size, capacity |-> capacity]

\* BZ2_bzDecompress with the whole input at hand and room up to capacity:
\* the output is filled to Min(capacity, streamSize); BZ_STREAM_END once the
\* end of the stream has been processed, BZ_OK when the room ran out first;
\* when the last byte fills the room exactly the library may report either
BzDecompress(capacity, streamSize) ==
    IF streamSize < capacity THEN {"BZ_STREAM_END"}
    ELSE IF streamSize = capacity THEN {"BZ_STREAM_END", "BZ_OK"}
    ELSE {"BZ_OK"}

RECURSIVE Bzip2Loop(_, _, _, _)
\* the while (result == BZ_OK) loop, entered with result == BZ_OK
Bzip2Loop(maxBufferSize, streamSize, capacity, totalDecompressed) ==
    IF totalDecompressed >= capacity /\ capacity * 2 > maxBufferSize
    THEN {BzResult(FALSE, totalDecompressed, capacity)}
    ELSE LET newCapacity == IF totalDecompressed >= capacity THEN capacity * 2 ELSE capacity
             total == IF streamSize < newCapacity THEN streamSize ELSE newCapacity
         IN  UNION {IF result = "BZ_STREAM_END" THEN {BzResult(TRUE, total, newCapacity)}
                    ELSE Bzip2Loop(maxBufferSize, streamSize, newCapacity, total) :
                       result \in BzDecompress(newCapacity, streamSize)}

DecompressBzip2(compressedSize, streamSize) ==
    IF compressedSize = 0 THEN {BzResult(FALSE, 0, 0)}
    ELSE Bzip2Loop(compressedSize * 50, streamSize, compressedSize * 4, 0)

Bzip2Streams ==
    {[compressedSize |-> c, streamSize |-> d] :
        c \in MinCompressed..MaxCompressed, d \in 0..(MaxRatio * MaxCompressed)}

NoBzip2Out == [op |-> "none", ok |-> FALSE, size |-> 0, capacity |-> 0]

Bzip2Init ==
    /\ fnInput \in Bzip2Streams
    /\ fnOut = NoBzip2Out

CallDecompressBzip2 ==
    /\ fnOut.op = "none"
    /\ \E r \in DecompressBzip2(fnInput.compressedSize, fnInput.streamSize) :
           fnOut' = [op |-> "DecompressBzip2", ok |-> r.ok, size |-> r.size,
                     capacity |-> r.capacity]
    /\ UNCHANGED fnInput

-----------------------------------------------------------------------------
(* XFileDecompressor::TryPatternBasedDecompression.  Indices are 0-based as in
   the code; a - b in size_t is taken modulo SizeModulus. *)

SizeSub(a, b) == (a - b + SizeModulus) % SizeModulus

PatternResult(ret, oob) == [ret |-> ret, oob |-> oob]
\* a read outside the buffer is undefined: the process may crash, or go on
\* with whatever the bytes read make of the comparison
OutOfBoundsRead == {PatternResult(r, TRUE) : r \in {"true", "false", "crash"}}

RECURSIVE MatchXofAt(_, _, _)
\* data[i] == 'x' && data[i+1] == 'o' && data[i+2] == 'f' && data[i+3] == ' '
\* from its j-th operand on: "match", "differ", or "oob" when an operand that
\* is evaluated lies outside the buffer
MatchXofAt(data, i, j) ==
    IF j > 3 THEN "match"
    ELSE IF i + j >= Len(data) THEN "oob"
    ELSE IF Ch(data, i + j + 1) # Ch("xof ", j + 1) THEN "differ"
    ELSE MatchXofAt(data, i, j + 1)

RECURSIVE TemplateLoop(_, _)
\* the second loop from index i on; memcmp reads the 8 bytes from data + i
TemplateLoop(data, i) ==
    IF ~(i <= SizeSub(Len(data), 8)) THEN {PatternResult("false", FALSE)}
    ELSE IF i + 8 > Len(data) THEN OutOfBoundsRead
    ELSE IF Substr(data, i, 8) = "template" /\ ValidateDecompressedContent(data)
    THEN {PatternResult("true", FALSE)}
    ELSE TemplateLoop(data, i + 1)

RECURSIVE XofLoop(_, _)
\* the first loop from index i on; an output that begins with "xof " passes
\* ValidateDecompressedContent
XofLoop(data, i) ==
    IF ~(i < SizeSub(Len(data), 3)) THEN TemplateLoop(data, 0)
    ELSE LET m == MatchXofAt(data, i, 0)
         IN  IF m = "oob" THEN OutOfBoundsRead
             ELSE IF m = "match" /\ ValidateDecompressedContent(SubstrFrom(data, i))
             THEN {PatternResult("true", FALSE)}
             ELSE XofLoop(data, i + 1)

TryPatternBasedDecompression(data) == XofLoop(data, 0)

MaxPatternLen == 13
PatternBases ==
    {"xof 0303txt 0032", "..xof 0303txt 00", "template Mesh { }", ".template Mesh {",
     "................", "xoxoxof template", "xxxxxxxxxxxxxxxx", ".....xo"}
PatternBuffers == {Substr(b, 0, n) : b \in PatternBases, n \in 0..MaxPatternLen}

NoPatternOut == [op |-> "none", ret |-> "false", oob |-> FALSE]

PatternInit ==
    /\ fnInput \in PatternBuffers
    /\ fnOut = NoPatternOut

CallTryPatternBasedDecompression ==
    /\ fnOut.op = "none"
    /\ \E r \in TryPatternBasedDecompression(fnInput) :
           fnOut' = [op |-> "TryPatternBasedDecompression", ret |-> r.ret, oob |-> r.oob]
    /\ UNCHANGED fnInput

-----------------------------------------------------------------------------
(* The decoding loop of TryLZ77Decompression and the LZSS loop of
   DecompressDirectXLZ, on a buffer of byte values.  pos is 0-based as in the
   code; output is the vector built so far. *)

\* control & (1 << bit)
BitSet(byte, bit) == (byte \div (2 ^ bit)) % 2 = 1
\* (data[pos + 1] << 8) | data[pos]
Word16(data, pos) == data[pos + 2] * 256 + data[pos + 1]

RECURSIVE LZ77Copy(_, _, _, _)
\* for (i = 0; i < length; ++i) if (startPos + i < output.size()) push_back
LZ77Copy(output, startPos, i, length) ==
    IF i >= length THEN output
    ELSE IF startPos + i < Len(output)
    THEN LZ77Copy(Append(output, output[startPos + i + 1]), startPos, i + 1, length)
    ELSE LZ77Copy(output, startPos, i + 1, length)

RECURSIVE LZ77While(_, _, _), LZ77For(_, _, _, _, _), LZ77For_BreakOnFar(_, _, _, _, _)
\* as if a back-reference reaching before the output ended the control byte
LZ77For_BreakOnFar(data, pos, output, control, bit) ==
    IF ~(bit < 8 /\ pos < Len(data)) THEN LZ77While(data, pos, output)
    ELSE IF BitSet(control, bit)
    THEN LZ77For(data, pos + 1, Append(output, data[pos + 1]), control, bit + 1)
    ELSE IF pos + 1 >= Len(data) THEN LZ77While(data, pos, output)
    ELSE LET lengthDistance == Word16(data, pos)
             distance == (lengthDistance \div 16) + 1
             length == (lengthDistance % 16) + 3
         IN  IF distance > Len(output)
             THEN LZ77While(data, pos + 2, output)
             ELSE LZ77For(data, pos + 2,
                          LZ77Copy(output, Len(output) - distance, 0, length),
                          control, bit + 1)

\* the for loop over the bits of one control byte, from bit on
LZ77For(data, pos, output, control, bit) ==
    IF ~(bit < 8 /\ pos < Len(data)) THEN LZ77While(data, pos, output)
    ELSE IF BitSet(control, bit)
    THEN LZ77For(data, pos + 1, Append(output, data[pos + 1]), control, bit + 1)
    ELSE IF pos + 1 >= Len(data) THEN LZ77While(data, pos, output)
    ELSE LET lengthDistance == Word16(data, pos)
             distance == (lengthDistance \div 16) + 1
             length == (lengthDistance % 16) + 3
         IN  IF distance > Len(output)
             THEN LZ77For(data, pos + 2, output, control, bit + 1)
             ELSE LZ77For(data, pos + 2,
                          LZ77Copy(output, Len(output) - distance, 0, length),
                          control, bit + 1)

\* while (pos < data.size()) { control = data[pos++]; ... }
LZ77While(data, pos, output) ==
    IF pos >= Len(data) THEN output
    ELSE LZ77For(data, pos + 1, output, data[pos + 1], 0)

\* the loop of TryLZ77Decompression, after output.clear() and pos = 0
TryLZ77Loop(data) == LZ77While(data, 0, <<>>)

RECURSIVE LZSSCopy(_, _, _, _, _)
\* for (j = 0; j < length; ++j) output.push_back(output[start + (j % offset)])
LZSSCopy(output, start, offset, j, length) ==
    IF j >= length THEN output
    ELSE LZSSCopy(Append(output, output[start + (j % offset) + 1]), start, offset, j + 1, length)

RECURSIVE LZSSWhile(_, _, _), LZSSFor(_, _, _, _, _)
LZSSFor(data, pos, output, flags, i) ==
    IF ~(i < 8 /\ pos < Len(data)) THEN LZSSWhile(data, pos, output)
    ELSE IF BitSet(flags, i)
    THEN LZSSFor(data, pos + 1, Append(output, data[pos + 1]), flags, i + 1)
    ELSE IF pos + 1 >= Len(data) THEN LZSSWhile(data, pos, output)
    ELSE LET match == Word16(data, pos)
             offset == (match \div 16) + 1
             length == (match % 16) + 3
         IN  IF offset <= Len(output)
             THEN LZSSFor(data, pos + 2,
                          LZSSCopy(output, Len(output) - offset, offset, 0, length),
                          flags, i + 1)
             ELSE LZSSFor(data, pos + 2, output, flags, i + 1)

LZSSWhile(data, pos, output) ==
    IF pos >= Len(data) THEN output
    ELSE LZSSFor(data, pos + 1, output, data[pos + 1], 0)

\* one round of the LZSS method: pos = headerSkip, output.clear(), the loop
DirectXLZSSLoop(data, headerSkip) == LZSSWhile(data, headerSkip, <<>>)

MaxLzLen == 5
\* control bytes 0..3, literals, and the bytes of near and far back-references
LzBytes == {0, 1, 2, 3, 16, 65}
LzBuffers == UNION {[1..n -> LzBytes] : n \in 0..MaxLzLen}

NoLzOut == [op |-> "none", ran |-> {}, lz77 |-> <<>>, lzss |-> <<>>]

LzInit ==
    /\ fnInput \in LzBuffers
    /\ fnOut = NoLzOut

CallTryLZ77Loop ==
    /\ "lz77" \notin fnOut.ran
    /\ fnOut' = [fnOut EXCEPT !.op = "TryLZ77Decompression", !.ran = @ \cup {"lz77"},
                              !.lz77 = TryLZ77Loop(fnInput)]
    /\ UNCHANGED fnInput

CallDirectXLZSSLoop ==
    /\ "lzss" \notin fnOut.ran
    /\ fnOut' = [fnOut EXCEPT !.op = "DecompressDirectXLZ", !.ran = @ \cup {"lzss"},
                              !.lzss = DirectXLZSSLoop(fnInput, 0)]
    /\ UNCHANGED fnInput

-----------------------------------------------------------------------------
(* The components at rest, and one specification per component. *)

SignatureIdle == sigData = <<>> /\ sigOut = NoSignatureOut
BatchIdle == batch = <<>> /\ batchBefore = <<>> /\ batchOut = <<>> /\ batchPhase = "idle"
LoggerIdle ==
    /\ logOp = <<>> /\ logPc = <<>> /\ logCalls = <<>> /\ mutex_ = NoThread
    /\ instance_ = FALSE /\ currentLevel_ = LogLevel.INFO /\ enableConsole_ = TRUE
    /\ enableFile_ = TRUE /\ logFileOpen = FALSE /\ logSink = <<>> /\ relocked = FALSE
FnIdle == fnInput = <<>> /\ fnOut = [op |-> "none"]
AuxIdle == SignatureIdle /\ BatchIdle /\ LoggerIdle /\ FnIdle

FacadeIdle == binaryData = XFileData /\ facadeResult = FALSE /\ retrieved = NoRetrieval
ReaderIdle == rdSize = 0 /\ rdPos = 0 /\ rdOutcome = "none" /\ rdRequest = <<"none", 0, 0>>
MeshIdle == mesh = XMeshData /\ validationErrors = <<>> /\ meshPhase = "idle"
TimingIdle ==
    /\ anim = XAnimationSet /\ animBefore = XAnimationSet
    /\ timingOut = NoTimingOut /\ timingPhase = "idle"
CliIdle == argv = <<>> /\ options = ConversionOptions /\ cliResult = NoCliResult
CompressedIdle ==
    /\ cfile = [path |-> "", oracle |-> CHOOSE o \in Oracles : TRUE]
    /\ cpc = "idle" /\ ctrace = <<>> /\ cresult = FALSE /\ chanded = <<"none", "">>

\* ---- XFileParser ----
InitParser ==
    ParserInit /\ FacadeIdle /\ ReaderIdle /\ MeshIdle /\ TimingIdle /\ CliIdle
    /\ CompressedIdle /\ AuxIdle
ParseFileStep ==
    /\ \E filepath \in Paths : CallParseFile(filepath)
    /\ UNCHANGED <<facadeVars, readerVars, meshVars, timingVars, cliVars, compVars, auxVars>>
ParseFromStringStep ==
    /\ \E content \in Contents : CallParseFromString(content)
    /\ UNCHANGED <<facadeVars, readerVars, meshVars, timingVars, cliVars, compVars, auxVars>>
NextParser == ParseFileStep \/ ParseFromStringStep
SpecParser == InitParser /\ [][NextParser]_vars

\* ---- EnhancedXFileParser ----
InitFacade ==
    FacadeInit /\ ReaderIdle /\ MeshIdle /\ TimingIdle /\ CliIdle /\ CompressedIdle /\ AuxIdle
FacadeParseFileStep ==
    /\ lastCall[1] = "none"
    /\ \E filepath \in Paths, oracle \in Oracles : FacadeParseFile(filepath, oracle)
    /\ UNCHANGED <<readerVars, meshVars, timingVars, cliVars, compVars, auxVars>>
FacadeGetParsedDataStep ==
    /\ FacadeGetParsedData
    /\ UNCHANGED <<readerVars, meshVars, timingVars, cliVars, compVars, auxVars>>
FacadeTakeParsedDataStep ==
    /\ FacadeTakeParsedData
    /\ UNCHANGED <<readerVars, meshVars, timingVars, cliVars, compVars, auxVars>>
NextFacade == FacadeParseFileStep \/ FacadeGetParsedDataStep \/ FacadeTakeParsedDataStep
SpecFacade == InitFacade /\ [][NextFacade]_vars

\* ---- BinaryReader ----
InitReader ==
    ParserInit /\ FacadeIdle /\ ReaderInit /\ MeshIdle /\ TimingIdle /\ CliIdle
    /\ CompressedIdle /\ AuxIdle
ReaderStep ==
    /\ \E op \in ReaderOps, n \in 0..SIZE_MAX : ReaderCall(op, n)
    /\ UNCHANGED <<parserVars, facadeVars, meshVars, timingVars, cliVars, compVars, auxVars>>
NextReader == ReaderStep
SpecReader == InitReader /\ [][NextReader]_vars

\* ---- XMeshData validation ----
InitMesh ==
    ParserInit /\ FacadeIdle /\ ReaderIdle /\ MeshInit /\ TimingIdle /\ CliIdle
    /\ CompressedIdle /\ AuxIdle
ValidateStep ==
    /\ Validate
    /\ UNCHANGED <<parserVars, facadeVars, readerVars, timingVars, cliVars, compVars, auxVars>>
NextMesh == ValidateStep
SpecMesh == InitMesh /\ [][NextMesh]_vars

\* ---- AnimationTimingCorrector ----
InitTiming ==
    ParserInit /\ FacadeIdle /\ ReaderIdle /\ MeshIdle /\ TimingInit /\ CliIdle
    /\ CompressedIdle /\ AuxIdle
AnalyzeStep ==
    /\ CallAnalyzeAnimationTiming
    /\ UNCHANGED <<parserVars, facadeVars, readerVars, meshVars, cliVars, compVars, auxVars>>
CorrectStep ==
    /\ CallCorrectAnimationTiming
    /\ UNCHANGED <<parserVars, facadeVars, readerVars, meshVars, cliVars, compVars, auxVars>>
ConvertStep ==
    /\ \E from \in TickRates, to \in TickRates : CallConvertKeyframeTiming(from, to)
    /\ UNCHANGED <<parserVars, facadeVars, readerVars, meshVars, cliVars, compVars, auxVars>>
NextTiming == AnalyzeStep \/ CorrectStep \/ ConvertStep
SpecTiming == InitTiming /\ [][NextTiming]_vars

\* ---- command line ----
InitCli ==
    ParserInit /\ FacadeIdle /\ ReaderIdle /\ MeshIdle /\ TimingIdle /\ CliInit
    /\ CompressedIdle /\ AuxIdle
ParseCommandLineStep ==
    /\ CallParseCommandLine
    /\ UNCHANGED <<parserVars, facadeVars, readerVars, meshVars, timingVars, compVars, auxVars>>
NextCli == ParseCommandLineStep
SpecCli == InitCli /\ [][NextCli]_vars

\* ---- ParseCompressedFile ----
InitCompressed ==
    /\ ParserInit /\ ReaderIdle /\ MeshIdle /\ TimingIdle /\ CliIdle
    /\ binaryData = XFileData /\ facadeResult = FALSE /\ retrieved = NoRetrieval
    /\ CompressedInit /\ AuxIdle
ParseCompressedFileStep ==
    /\ CallParseCompressedFile
    /\ UNCHANGED <<parserVars, facadeResult, retrieved, readerVars, meshVars,
                   timingVars, cliVars, auxVars>>
NextCompressed == ParseCompressedFileStep
SpecCompressed == InitCompressed /\ [][NextCompressed]_vars

-----------------------------------------------------------------------------
(* Properties of XFileParser (specification SpecParser). *)

\* C1: for a text-format file whose body is one Mesh block laid out one item
\* per line (n vertex lines, m triangle lines), ParseFile returns true, the
\* model is valid, and the vertex and face counts are n and m (4 and 2 for the
\* fixture test_simple.x).
C1_MeshFileParses ==
    \A fx \in MeshFixtures :
        (parseCalls = 1 /\ lastCall = <<"ParseFile", fx.path>>) =>
            /\ parseResult
            /\ FileDataIsValid(parsedData)
            /\ Len(parsedData.meshData.vertices) = fx.n
            /\ Len(parsedData.meshData.faces) = fx.m

\* C3: whenever ParseFile or ParseFromString returns false, the model's
\* parse-error list has at least one entry after the call.
C3_FailureRecordsError ==
    (parseCalls > 0 /\ ~parseResult) => Len(parsedData.parseErrors) > 0

\* what a caller can observe of a model
Observable(d) ==
    [vertices |-> d.meshData.vertices, faces |-> d.meshData.faces,
     materials |-> d.meshData.materials, animations |-> d.meshData.animations,
     parseSuccessful |-> d.parseSuccessful, parseErrors |-> d.parseErrors,
     parseWarnings |-> d.parseWarnings]

\* the model a freshly constructed parser holds after the given top-level parse
FreshParse(call) ==
    IF call[1] = "ParseFile" THEN ParseFile(call[2], XFileData, 0).data
    ELSE ParseFromString(call[2], XFileData, 0).data

\* C4: after two consecutive top-level parses on one parser instance, the
\* observable model is the one a fresh parser would hold after the second
\* parse alone.
C4_SecondParseAsFresh ==
    parseCalls >= 2 => Observable(parsedData) = Observable(FreshParse(lastCall))

-----------------------------------------------------------------------------
(* Properties of EnhancedXFileParser (specification SpecFacade). *)

TextPaths == {p \in DOMAIN Files : DetectFileFormat(p) = "TEXT" /\ IsValidXFile(p)}

-----------------------------------------------------------------------------
(* Properties of AnimationTimingCorrector (specification SpecTiming). *)

\* C5: ConvertKeyframeTiming(keyframes, from, to) maps every keyframe time t
\* to (t / from) * to and leaves the number, order, position, rotation and
\* scale of the keyframes unchanged.
C5_ConvertMapsTime ==
    timingOut.op = "ConvertKeyframeTiming" =>
        /\ Len(timingOut.converted) = Len(anim.keyframes)
        /\ \A i \in 1..Len(anim.keyframes) :
              timingOut.converted[i] =
                  [anim.keyframes[i] EXCEPT
                      !.time = RMul(RDiv(@, timingOut.from), timingOut.to)]

\* the declared rate is positive and duration / ticksPerSecond is reasonable
DeclaredTimingReasonable(a) ==
    /\ RGt(a.ticksPerSecond, RInt(0))
    /\ RGe(RDiv(a.duration, a.ticksPerSecond), Rat(5, 100))
    /\ RLe(RDiv(a.duration, a.ticksPerSecond), RInt(600))

\* the correction left the animation alone and reported no timing error
CorrectionIsIdentity ==
    /\ anim = animBefore
    /\ timingOut.result.isValid
    /\ timingOut.result.correctedDurationSeconds
          = RDiv(animBefore.duration, animBefore.ticksPerSecond)
    /\ timingOut.result.originalDurationSeconds
          = RDiv(animBefore.duration, animBefore.ticksPerSecond)
    /\ timingOut.result.timingErrorSeconds = RInt(0)

-----------------------------------------------------------------------------
(* Properties of BinaryXFileParser::ParseCompressedFile (SpecCompressed). *)

\* the file is bzip-tagged and neither a fixed offset nor any byte position
\* carries a BZ signature
ReachesProprietaryPath(filepath) ==
    /\ FileExists(filepath)
    /\ Len(FileContent(filepath)) >= 16
    /\ Substr(FileContent(filepath), 0, 4) = "xof "
    /\ Substr(FileContent(filepath), 8, 4) = "bzip"
    /\ FixedOffsetHit(FileContent(filepath)) = 0
    /\ BzScanHit(FileContent(filepath)) < 0

HasLiteralHeader(data) == Substr(data, 0, 16) = "xof 0303bzip0032"

\* the generalized searches among the attempts, in order
Searches(trace) == SelectSeq(trace, LAMBDA e : e[1] \in {"literal", "sweep"})

\* the file offsets 16, 20, .. 32 inside the file, up to and including the
\* first one that yields accepted output
SweepOffsets(data, oracle) ==
    LET inside == {o \in {16, 20, 24, 28, 32} : o < Len(data)}
        accepted == inside \cap oracle.accepts
        visited == {o \in inside : \A a \in accepted : o <= a}
    IN  [i \in 1..Cardinality(visited) |-> 16 + 4 * (i - 1)]

\* C7 as amended: on the proprietary path a file that begins with the literal
\* header gets one generalized search on the bytes after offset 16 and no
\* sweep; any other file gets the search at file offsets 16, 20, .. 32 below
\* its size, ascending, up to the first accepted one; when no search is
\* accepted, DecompressDirectXBzip and then DecompressDirectXLZ are tried on
\* the payload before the call gives up.
C7_ProprietaryPathRuns ==
    (cpc = "done" /\ ReachesProprietaryPath(cfile.path)) =>
        LET data == FileContent(cfile.path)
            s == Searches(ctrace)
            sweep == SweepOffsets(data, cfile.oracle)
            accepted == \E i \in 1..Len(s) : s[i][2] < Len(data) /\ s[i][2] \in cfile.oracle.accepts
        IN  /\ s = IF HasLiteralHeader(data) THEN <<<<"literal", 16>>>>
                   ELSE [i \in 1..Len(sweep) |-> <<"sweep", sweep[i]>>]
            /\ SubSeq(ctrace, 1, Len(s)) = s
            /\ (~accepted /\ Len(data) > 16) =>
                  /\ Len(ctrace) > Len(s)
                  /\ ctrace[Len(s) + 1] = <<"dxbzip", 16>>
                  /\ ~(Len(data) >= 36 /\ cfile.oracle.dxbzip) =>
                        /\ Len(ctrace) = Len(s) + 2
                        /\ ctrace[Len(s) + 2] = <<"lz", 16>>

\* C7 witness: a literal-header file whose bytes from offset 24 would be
\* accepted; the one search at 16 fails and both fallbacks run
C7_Witness ==
    /\ cpc = "done"
    /\ ReachesProprietaryPath(cfile.path)
    /\ HasLiteralHeader(FileContent(cfile.path))
    /\ Len(FileContent(cfile.path)) > 32
    /\ cfile.oracle.accepts = {24}
    /\ ctrace = <<<<"literal", 16>>, <<"dxbzip", 16>>, <<"lz", 16>>>>

\* C7 as originally stated: the attempt on the payload after byte 16 comes
\* first and, when it is not accepted, the search is retried at file offsets
\* 16, 20, .. 32 up to the first accepted one (the attempt at 16 made once or
\* twice).
C7_LiteralThenSweep ==
    (cpc = "done" /\ ReachesProprietaryPath(cfile.path)) =>
        LET data == FileContent(cfile.path)
            s == Searches(ctrace)
            visited == [i \in 1..Len(s) |-> s[i][2]]
            sweep == SweepOffsets(data, cfile.oracle)
            first == 16 < Len(data) /\ 16 \in cfile.oracle.accepts
        IN  \/ visited = <<16>> \o (IF first THEN <<>> ELSE sweep)
            \/ visited = sweep /\ sweep # <<>>

-----------------------------------------------------------------------------
(* Properties of BinaryReader (specification SpecReader). *)

\* C8: for a cursor p <= size, a request (fixed-width read of w bytes,
\* ReadBytes(n), ReadString(n), Skip(n), Seek(q)) fails with out-of-range
\* exactly when p + w, p + n or q, as a mathematical integer, exceeds size;
\* after a failure the cursor is still p.
C8_OutOfRangeExactlyPastEnd ==
    (rdRequest[1] # "none" /\ rdRequest[3] <= rdSize) =>
        LET op == rdRequest[1]
            n == rdRequest[2]
            p == rdRequest[3]
            end == CASE op \in DOMAIN FixedWidth -> p + FixedWidth[op]
                     [] op = "Seek" -> n
                     [] OTHER -> p + n
        IN  /\ (rdOutcome = "out_of_range") <=> (end > rdSize)
            /\ rdOutcome # "ok" => rdPos = p

-----------------------------------------------------------------------------
(* Properties of ParseCommandLine (specification SpecCli). *)

ValuelessFlags == {"--verbose", "--strict", "--no-timing-validation", "--no-report"}

\* C9: for a command line holding --log-level L with a valid L, followed by
\* further arguments, where every other argument is a valueless flag or the
\* one positional input file, ParseCommandLine succeeds, sets the log level to
\* L (DEBUG when --verbose comes later), applies every flag before and after,
\* and sets inputFile to the positional argument.
C9_LogLevelConsumesFlagAndValue ==
    \A k \in 2..(Len(argv) - 2) :
        LET others == (2..Len(argv)) \ {k, k + 1}
            later == {j \in others : j > k}
            given(flag) == \E j \in others : argv[j] = flag
        IN  (/\ cliResult.called
             /\ argv[k] = "--log-level"
             /\ argv[k + 1] \in DOMAIN LogLevelOf
             /\ \A j \in others : argv[j] \in ValuelessFlags \cup {"model.x"}
             /\ Cardinality({j \in others : argv[j] = "model.x"}) = 1) =>
                /\ cliResult.ret
                /\ ~cliResult.exited
                /\ options.inputFile = "model.x"
                /\ options.logLevel =
                      IF \E j \in later : argv[j] = "--verbose" THEN "DEBUG"
                      ELSE LogLevelOf[argv[k + 1]]
                /\ options.strictMode = given("--strict")
                /\ options.verboseLogging = given("--verbose")
                /\ options.validateTiming = ~given("--no-timing-validation")
                /\ options.generateReport = ~given("--no-report")

-----------------------------------------------------------------------------
(* Properties of XMeshData::GetValidationErrors (specification SpecMesh). *)

\* C10: when GetValidationErrors returns an empty list, every face's material
\* index is -1 or within [0, materialCount).
C10_ValidMeshMaterialIndices ==
    (meshPhase = "validated" /\ validationErrors = <<>>) =>
        \A i \in 1..Len(mesh.faces) :
            \/ mesh.faces[i].materialIndex = -1
            \/ /\ 0 <= mesh.faces[i].materialIndex
               /\ mesh.faces[i].materialIndex < Len(mesh.materials)

\* C11: when GetValidationErrors returns an empty list (IsValid() is true),
\* every vertex - with or without bones in the mesh - has bone-index and
\* bone-weight sequences of equal length, bone indices within [0, boneCount)
\* and, when it has weights, a weight sum within 0.01 of 1.
C11_ValidMeshBoneInfluences ==
    (meshPhase = "validated" /\ validationErrors = <<>>) =>
        \A i \in 1..Len(mesh.vertices) :
            LET v == mesh.vertices[i] IN
            /\ Len(v.boneIndices) = Len(v.boneWeights)
            /\ \A k \in 1..Len(v.boneIndices) :
                  0 <= v.boneIndices[k] /\ v.boneIndices[k] < Len(mesh.bones)
            /\ v.boneWeights # <<>> =>
                  RLe(RAbs(RSub(SumWeights(v.boneWeights, 1), RInt(1))), Rat(1, 100))

-----------------------------------------------------------------------------
(* The signature predicates (specification SpecSignature). *)

coreVars ==
    <<parserVars, facadeVars, readerVars, meshVars, timingVars, cliVars, compVars>>
CoreIdle ==
    ParserInit /\ FacadeIdle /\ ReaderIdle /\ MeshIdle /\ TimingIdle /\ CliIdle
    /\ CompressedIdle

InitSignature == CoreIdle /\ SignatureInit /\ BatchIdle /\ LoggerIdle /\ FnIdle
SignatureStep ==
    /\ CallSignaturePredicates
    /\ UNCHANGED <<coreVars, batchVars, logVars, fnVars>>
NextSignature == SignatureStep
SpecSignature == InitSignature /\ [][NextSignature]_vars

\* C12: on every buffer of at least 4 bytes IsZipCompressed is true exactly
\* when the buffer begins with 50 4B 03 04, and IsDirectXLZCompressed is true
\* exactly when its first 4 bytes, read little-endian, are 0x00038760,
\* 0x01038760 or 0x02038760.
C12_SignaturesExact ==
    (sigOut.called /\ Len(sigData) >= 4) =>
        /\ sigOut.zip <=> SubSeq(sigData, 1, 4) = <<80, 75, 3, 4>>
        /\ sigOut.lz <=> SubSeq(sigData, 1, 4) \in
              {<<96, 135, 3, 0>>, <<96, 135, 3, 1>>, <<96, 135, 3, 2>>}

-----------------------------------------------------------------------------
(* CorrectAllAnimations (specification SpecBatch). *)

InitBatch == CoreIdle /\ SignatureIdle /\ BatchInit /\ LoggerIdle /\ FnIdle
CorrectAllStep ==
    /\ CallCorrectAllAnimations
    /\ UNCHANGED <<coreVars, sigVars, logVars, fnVars>>
NextBatch == CorrectAllStep
SpecBatch == InitBatch /\ [][NextBatch]_vars

\* C13: CorrectAllAnimations on n animations returns exactly n result records;
\* record i is the result of correcting animation i alone, and animation i is
\* left as that correction leaves it, whatever the results of the others.
C13_BatchCorrectsEachInOrder ==
    batchPhase = "done" =>
        /\ Len(batchOut) = Len(batchBefore)
        /\ Len(batch) = Len(batchBefore)
        /\ \A i \in 1..Len(batchBefore) :
              /\ batchOut[i] = CorrectAnimationTiming(batchBefore[i]).result
              /\ batch[i] = CorrectAnimationTiming(batchBefore[i]).animation

\* C13 witness: a batch of three whose first result is invalid and whose last
\* is valid
C13_Witness ==
    /\ batchPhase = "done"
    /\ Len(batchBefore) = 3
    /\ Len(batchOut) = 3
    /\ ~batchOut[1].isValid
    /\ batchOut[3].isValid
    /\ batchBefore[1].name = "broken"
    /\ batch[1] # batchBefore[1]

\* ---- AnalyzeAnimationTiming over every declared rate ----
InitAnalysis ==
    ParserInit /\ FacadeIdle /\ ReaderIdle /\ MeshIdle /\ AnalysisInit /\ CliIdle
    /\ CompressedIdle /\ AuxIdle
NextAnalysis == AnalyzeStep
SpecAnalysis == InitAnalysis /\ [][NextAnalysis]_vars

\* the animation of the second test of TestAnimationTimingCorrection
IsBrokenTestAnimation(a) == a.duration = RInt(4800000) /\ a.ticksPerSecond = RInt(1)

\* C14: whatever the duration, the declared rate (zero and negative included) and
\* the keyframes, AnalyzeAnimationTiming returns a confidence within [0, 1] and a
\* detected rate above 0; for the duration 4,800,000 declared at rate 1 the
\* detected rate is above 1
C14_AnalysisWithinRange ==
    timingOut.op = "AnalyzeAnimationTiming" =>
        /\ RGe(timingOut.analysis.confidenceLevel, RInt(0))
        /\ RLe(timingOut.analysis.confidenceLevel, RInt(1))
        /\ RGt(timingOut.analysis.detectedTicksPerSecond, RInt(0))
        /\ IsBrokenTestAnimation(animBefore) =>
               RGt(timingOut.analysis.detectedTicksPerSecond, RInt(1))

\* the broken test animation, given keyframes, has had its candidates scored
C14_Witness ==
    /\ timingOut.op = "AnalyzeAnimationTiming"
    /\ IsBrokenTestAnimation(animBefore)
    /\ animBefore.keyframes # <<>>
    /\ timingOut.analysis.candidateTickRates # <<>>

\* a declared rate of zero or below has been analysed with keyframes present
C14_WitnessNonPositiveRate ==
    /\ timingOut.op = "AnalyzeAnimationTiming"
    /\ RLe(animBefore.ticksPerSecond, RInt(0))
    /\ animBefore.keyframes # <<>>

\* C15: the list GetCandidateTickRates returns contains 4800, begins with 4800
\* followed by 160, continues in ascending order, and holds each rate of
\* COMMON_TICK_RATES exactly once
C15_CandidateOrder ==
    LET rates == timingOut.analysis.candidateTickRates
    IN  (timingOut.op = "AnalyzeAnimationTiming" /\ rates # <<>>) =>
            /\ \E i \in 1..Len(rates) : rates[i] = RInt(4800)
            /\ rates[1] = RInt(4800)
            /\ Len(rates) >= 2 /\ rates[2] = RInt(160)
            /\ \A i \in 3..(Len(rates) - 1) : RLt(rates[i], rates[i + 1])
            /\ \A k \in 1..Len(COMMON_TICK_RATES) :
                   Cardinality({i \in 1..Len(rates) : rates[i] = COMMON_TICK_RATES[k]}) = 1

\* the candidates have been listed for an animation whose keyframes went through
\* the pattern analysis
C15_Witness ==
    /\ timingOut.op = "AnalyzeAnimationTiming"
    /\ Len(animBefore.keyframes) >= 2
    /\ Len(timingOut.analysis.candidateTickRates) = Len(COMMON_TICK_RATES)

-----------------------------------------------------------------------------
(* The logger under concurrent callers (specification SpecLogger). *)

InitLogger == CoreIdle /\ SignatureIdle /\ BatchIdle /\ LoggerInit /\ FnIdle
LoggerStep(t) ==
    \/ GetInstanceEnter(t)
    \/ GetInstanceReturn(t)
    \/ InitializeConfigure(t)
    \/ InitializeOpen(t)
    \/ InitializeWarn(t)
    \/ InitializeWarnEndl(t)
    \/ InitializeDisableFile(t)
    \/ EnableConsoleOutput(t)
    \/ LogLevelCheck(t)
    \/ LogLock(t)
    \/ LogConsole(t)
    \/ LogConsoleEndl(t)
    \/ LogFile(t)
    \/ LogFileEndl(t)
    \/ LogUnlock(t)
    \/ FlushLock(t)
    \/ FlushUnlock(t)
NextLogger ==
    /\ \E t \in Threads : LoggerStep(t)
    /\ UNCHANGED <<coreVars, sigVars, batchVars, fnVars>>
SpecLogger == InitLogger /\ [][NextLogger]_vars

\* every write to a sink was made by a thread holding the mutex
SinkWritesUnderMutex ==
    \A i \in 1..Len(logSink) : logSink[i].holder = logSink[i].thread

\* between two writes of one Log call there is no write of another Log call
LogCallsNotInterleaved ==
    \A i, k \in 1..Len(logSink) :
        (/\ i < k
         /\ logSink[i].call # 0
         /\ logSink[i].thread = logSink[k].thread
         /\ logSink[i].call = logSink[k].call) =>
            \A j \in (i + 1)..(k - 1) :
                logSink[j].call # 0 =>
                    /\ logSink[j].thread = logSink[i].thread
                    /\ logSink[j].call = logSink[i].call

\* C16: with several threads in the logger, the console and file writes of one
\* Log call are never interleaved with those of another: every sink write is
\* made while holding the mutex that guards the construction of the instance,
\* and no operation locks that mutex while holding it
C16_SinkWritesSerialized ==
    /\ SinkWritesUnderMutex
    /\ LogCallsNotInterleaved
    /\ ~relocked

\* the dataContent that ParseTextFormat hands to ParseTemplateDefinitions and
\* ParseDataObjects: the preprocessed content without its 16-byte header
DataContent(content) == SubstrFrom(Call("PreprocessTextContent", <<content>>), 16)

\* C17: the string the text parser walks line by line in the object parse still
\* has the line breaks of the file body: the whitespace normalization is not
\* applied to the string handed to the line-oriented object parsers
C17_WalkedStringKeepsLineBreaks ==
    \A content \in Contents :
        (/\ lastCall = <<"ParseFromString", content>>
         /\ Len(content) >= 16
         /\ SubSeq(content, 1, 16) = Header
         /\ Contains(SubstrFrom(content, 16), "\n")) =>
            Contains(DataContent(content), "\n")

-----------------------------------------------------------------------------
(* What ParseCompressedFile does with a decompressed buffer (specification
   SpecCompressed). *)

\* the attempt a trace ends with produced decompressed data
LastAttemptSucceeded(data, oracle, trace) ==
    /\ trace # <<>>
    /\ LET last == trace[Len(trace)]
           payload == SubstrFrom(data, 16)
       IN  CASE last[1] = "bzip2" -> oracle.bz2ok
             [] last[1] \in {"literal", "sweep"} ->
                    TryMultipleDecompressionMethods(data, last[2], oracle)
             [] last[1] = "dxbzip" -> DecompressDirectXBzip(payload, oracle)
             [] last[1] = "lz" -> DecompressDirectXLZ(payload, oracle)
             [] last[1] = "deflate" -> DecompressRawDeflate(payload, oracle)
             [] OTHER -> FALSE

\* the buffer carries the header of a binary .x file
LooksBinary(buffer) == Len(buffer) >= 16 /\ Substr(buffer, 8, 4) = "bin "

\* C18: whenever a decompression strategy of ParseCompressedFile succeeds, the
\* decompressed buffer is handed to XFileParser::ParseFromString and the result
\* of that parse is what ParseCompressedFile returns; ParseBinaryData is used
\* only on a buffer that still looks binary
C18_DecompressedGoesToTextParser ==
    (/\ cpc = "done"
     /\ FileExists(cfile.path)
     /\ LastAttemptSucceeded(FileContent(cfile.path), cfile.oracle, ctrace)) =>
        /\ ~LooksBinary(cfile.oracle.output) =>
              /\ chanded = <<"ParseFromString", cfile.oracle.output>>
              /\ cresult = Call("ParseFromString", <<cfile.oracle.output, XFileData, 0>>).ret
        /\ chanded[1] = "ParseBinaryData" => LooksBinary(chanded[2])

-----------------------------------------------------------------------------
(* ParseCompressedFile called directly and through EnhancedXFileParser, on the
   same file (specification SpecCompressedEntry). *)

InitCompressedEntry == InitCompressed
FacadeOnFileStep ==
    /\ lastCall[1] = "none"
    /\ FacadeParseFile(cfile.path, cfile.oracle)
    /\ UNCHANGED <<readerVars, meshVars, timingVars, cliVars, compVars, auxVars>>
NextCompressedEntry == ParseCompressedFileStep \/ FacadeOnFileStep
SpecCompressedEntry == InitCompressedEntry /\ [][NextCompressedEntry]_vars

\* the file exists and its first four bytes are "xof "
XofPrefixed(filepath) ==
    /\ FileExists(filepath)
    /\ Len(FileContent(filepath)) >= 4
    /\ Substr(FileContent(filepath), 0, 4) = "xof "

\* C19: ParseCompressedFile returns false for every file that begins with
\* "xof ", whatever its format tag and whichever decompression strategy
\* succeeds or fails; so EnhancedXFileParser::ParseFile returns false for every
\* such file that is classified as compressed
C19_XofFilesNeverParse ==
    XofPrefixed(cfile.path) =>
        /\ cpc = "done" => cresult = FALSE
        /\ (/\ lastCall = <<"Facade::ParseFile", cfile.path>>
            /\ DetectFileFormat(cfile.path) = "COMPRESSED") => facadeResult = FALSE

\* both entry points have run on a bzip-tagged file for which a decompression
\* strategy succeeded
C19_Witness ==
    /\ XofPrefixed(cfile.path)
    /\ Substr(FileContent(cfile.path), 8, 4) = "bzip"
    /\ cpc = "done"
    /\ LastAttemptSucceeded(FileContent(cfile.path), cfile.oracle, ctrace)
    /\ lastCall = <<"Facade::ParseFile", cfile.path>>
    /\ DetectFileFormat(cfile.path) = "COMPRESSED"
    /\ cresult = FALSE /\ facadeResult = FALSE

\* AnalyzeAnimationTiming went on to score the candidates
TookScoringPath(a) ==
    /\ a.keyframes # <<>>
    /\ ~(/\ RGt(a.ticksPerSecond, RInt(0))
         /\ IsReasonableDuration(RDiv(a.duration, a.ticksPerSecond)))

\* C20: when AnalyzeAnimationTiming scores the candidates and at least one
\* candidate rate gives a duration within [0.05 s, 600 s], the detected rate
\* gives a duration within [0.05 s, 600 s] as well
C20_DetectedRateIsPlausible ==
    LET rates == timingOut.analysis.candidateTickRates
    IN  (/\ timingOut.op = "AnalyzeAnimationTiming"
         /\ TookScoringPath(animBefore)
         /\ \E i \in 1..Len(rates) :
                IsReasonableDuration(RDiv(animBefore.duration, rates[i]))) =>
            IsReasonableDuration(RDiv(animBefore.duration,
                                      timingOut.analysis.detectedTicksPerSecond))

-----------------------------------------------------------------------------
(* Properties of CorrectAnimationTiming (specification SpecTiming). *)

\* duration / ticksPerSecond as the animation declared it
OriginalSeconds(a) == RDiv(a.duration, a.ticksPerSecond)

\* C21: an animation whose declared positive rate gives an original duration
\* above 600.1 s gets isValid = false from CorrectAnimationTiming, whatever rate
\* is detected and however the animation is rescaled; a valid result has an
\* original duration within 0.1 s of [0.05 s, 600 s]
C21_LongOriginalNeverValid ==
    (timingOut.op = "CorrectAnimationTiming" /\ RGt(animBefore.ticksPerSecond, RInt(0))) =>
        /\ RGt(OriginalSeconds(animBefore), Rat(6001, 10)) => ~timingOut.result.isValid
        /\ timingOut.result.isValid =>
              /\ RGe(OriginalSeconds(animBefore), RSub(MIN_REASONABLE_DURATION, TIMING_TOLERANCE))
              /\ RLe(OriginalSeconds(animBefore), RAdd(MAX_REASONABLE_DURATION, TIMING_TOLERANCE))

\* an animation of 608 s with keyframes was rescaled to the detected rate and
\* its result is invalid
C21_Witness ==
    /\ timingOut.op = "CorrectAnimationTiming"
    /\ animBefore.ticksPerSecond = RInt(30)
    /\ animBefore.duration = RInt(18240)
    /\ animBefore.keyframes # <<>>
    /\ anim.ticksPerSecond # animBefore.ticksPerSecond
    /\ anim.duration # animBefore.duration
    /\ ~timingOut.result.isValid

\* the correction branch was entered: declared and detected rate differ by more
\* than 0.1
RateReplaced ==
    /\ timingOut.op = "CorrectAnimationTiming"
    /\ RGt(RAbs(RSub(animBefore.ticksPerSecond, timingOut.result.detectedTicksPerSecond)),
           Rat(1, 10))

\* the rate is the detected one; with declared / detected more than 0.01 away
\* from 1 the duration and every flat keyframe time are multiplied by it; bone
\* tracks, name, number and order of the flat keyframes are as before
CorrectionRescales ==
    LET detected == timingOut.result.detectedTicksPerSecond
        timeScale == RDiv(animBefore.ticksPerSecond, detected)
    IN  /\ anim.ticksPerSecond = detected
        /\ RGt(RAbs(RSub(timeScale, RInt(1))), Rat(1, 100)) =>
              /\ anim.duration = RMul(animBefore.duration, timeScale)
              /\ \A i \in 1..Len(animBefore.keyframes) :
                     anim.keyframes[i].time = RMul(animBefore.keyframes[i].time, timeScale)
        /\ anim.boneKeyframes = animBefore.boneKeyframes
        /\ anim.name = animBefore.name
        /\ Len(anim.keyframes) = Len(animBefore.keyframes)
        /\ \A i \in 1..Len(animBefore.keyframes) :
               [anim.keyframes[i] EXCEPT !.time = animBefore.keyframes[i].time]
                   = animBefore.keyframes[i]

-----------------------------------------------------------------------------
(* The array parsers of the text parser (specification SpecArrays). *)

\* the variables of every component but the function called on its own
restVars == <<coreVars, sigVars, batchVars, logVars>>
RestIdle == CoreIdle /\ SignatureIdle /\ BatchIdle /\ LoggerIdle

InitArrays == RestIdle /\ ArrayInit
ParseIntArrayStep == CallParseIntArray /\ UNCHANGED restVars
ParseFloatArrayStep == CallParseFloatArray /\ UNCHANGED restVars
ParseFaceLineStep == CallParseFaceLine /\ UNCHANGED restVars
NextArrays == ParseIntArrayStep \/ ParseFloatArrayStep \/ ParseFaceLineStep
SpecArrays == InitArrays /\ [][NextArrays]_vars

\* the tokens are integers
IntegerTokens(tokens) == \A i \in 1..Len(tokens) : ~Contains(tokens[i], ".")

\* C23: ParseIntArray and ParseFloatArray return one number per numeric token
\* of the line, in order, whether the tokens are separated by ';', by ',' or by
\* both; a face line "3; 0, 1, 2;;" gives [3, 0, 1, 2] and ParseFaceLine the
\* three vertex indices
C23_OneNumberPerToken ==
    LET tokens == fnInput.tokens
    IN  /\ (fnOut.op = "ParseIntArray" /\ IntegerTokens(tokens)) =>
               fnOut.ints = [i \in 1..Len(tokens) |-> ParseInt(tokens[i]).val]
        /\ fnOut.op = "ParseFloatArray" =>
               fnOut.floats = [i \in 1..Len(tokens) |-> ParseFloat(tokens[i]).val]
        /\ (fnOut.op = "ParseFaceLine" /\ IntegerTokens(tokens)) =>
               fnOut.face.indices = <<ParseInt(tokens[2]).val, ParseInt(tokens[3]).val,
                                      ParseInt(tokens[4]).val>>

-----------------------------------------------------------------------------
(* SkipToClosingBrace (specification SpecSkip). *)

InitSkip == RestIdle /\ SkipInit
SkipToClosingBraceStep == CallSkipToClosingBrace /\ UNCHANGED restVars
NextSkip == SkipToClosingBraceStep
SpecSkip == InitSkip /\ [][NextSkip]_vars

RECURSIVE ClosingLineFrom(_, _, _)
\* the index of the line on which the brace depth, depth before line i, returns
\* to zero; 0 if it never does
ClosingLineFrom(lines, i, depth) ==
    IF i > Len(lines) THEN 0
    ELSE IF depth + BraceDelta(lines[i]) <= 0 THEN i
    ELSE ClosingLineFrom(lines, i + 1, depth + BraceDelta(lines[i]))

ClosingLine(lines) == ClosingLineFrom(lines, 1, 1)

\* C24: entered just after the line with the opening brace, SkipToClosingBrace
\* consumes the lines up to and including the one on which the brace depth
\* returns to zero, and none after it: the line that follows is the next one
\* the caller reads
C24_StopsAtClosingLine ==
    (fnOut.op = "SkipToClosingBrace" /\ ClosingLine(fnInput) # 0) =>
        fnOut.pos = ClosingLine(fnInput) + 1

-----------------------------------------------------------------------------
(* ValidateDecompressedContent (specification SpecValidate). *)

InitValidate == RestIdle /\ ValidateInit
ValidateDecompressedContentStep == CallValidateDecompressedContent /\ UNCHANGED restVars
NextValidate == ValidateDecompressedContentStep
SpecValidate == InitValidate /\ [][NextValidate]_vars

\* C25: ValidateDecompressedContent(b) is true exactly when b is non-empty and
\* either its first four bytes are "xof " or "template" occurs within its
\* first min(100, length) bytes, buffers of at most 100 bytes included
C25_ValidExactlyOnSignature ==
    fnOut.op = "ValidateDecompressedContent" =>
        (fnOut.valid <=>
            /\ fnInput # ""
            /\ \/ Substr(fnInput, 0, 4) = "xof "
               \/ Contains(Substr(fnInput, 0, 100), "template"))

-----------------------------------------------------------------------------
(* DetectDataFormat (specification SpecFormat). *)

InitFormat == RestIdle /\ FormatInit
DetectDataFormatStep == CallDetectDataFormat /\ UNCHANGED restVars
NextFormat == DetectDataFormatStep
SpecFormat == InitFormat /\ [][NextFormat]_vars

\* one of the three decompression signatures: ZIP, "BZ", legacy LZ
MatchesCompressionSignature(bytes) ==
    \/ SubSeq(bytes, 1, 4) = <<80, 75, 3, 4>>
    \/ SubSeq(bytes, 1, 2) = <<66, 90>>
    \/ SubSeq(bytes, 1, 4) \in {<<96, 135, 3, 0>>, <<96, 135, 3, 1>>, <<96, 135, 3, 2>>}

\* C26: DetectDataFormat returns for every buffer: Text under 16 bytes; for an
\* "xof "-prefixed buffer of at least 16 bytes, by the four-byte tag at offset
\* 8, Text for "txt ", Binary for "bin ", Compressed for "tzip", "bzip" or a
\* tag equal to the literal "lz", Text for any other tag; without the prefix,
\* Compressed if one of the three signatures matches, else Text
C26_Classification ==
    fnOut.op = "DetectDataFormat" =>
        fnOut.format =
            IF Len(fnInput) < 16 THEN "TEXT"
            ELSE IF SubSeq(fnInput, 1, 4) = XofBytes
            THEN CASE SubSeq(fnInput, 9, 12) = <<116, 120, 116, 32>> -> "TEXT"
                   [] SubSeq(fnInput, 9, 12) = <<98, 105, 110, 32>> -> "BINARY"
                   [] SubSeq(fnInput, 9, 12) = <<116, 122, 105, 112>> -> "COMPRESSED"
                   [] SubSeq(fnInput, 9, 12) = <<98, 122, 105, 112>> -> "COMPRESSED"
                   [] SubSeq(fnInput, 9, 12) = LzLiteral -> "COMPRESSED"
                   [] OTHER -> "TEXT"
            ELSE IF MatchesCompressionSignature(fnInput) THEN "COMPRESSED" ELSE "TEXT"

\* an "xof " buffer whose tag begins with "lz" has been classified
C26_Witness ==
    /\ fnOut.op = "DetectDataFormat"
    /\ Len(fnInput) >= 16
    /\ SubSeq(fnInput, 1, 4) = XofBytes
    /\ SubSeq(fnInput, 9, 10) = LzLiteral
    /\ fnOut.format = "TEXT"

-----------------------------------------------------------------------------
(* The array reads and ReadLengthPrefixedString of BinaryReader (specification
   SpecReaderCompound). *)

ReaderCompoundStep ==
    /\ \E op \in CompoundReaderOps, n \in 0..SIZE_MAX : ReaderCompoundCall(op, n)
    /\ UNCHANGED <<parserVars, facadeVars, meshVars, timingVars, cliVars, compVars, auxVars>>
NextReaderCompound == ReaderStep \/ ReaderCompoundStep
SpecReaderCompound == InitReader /\ [][NextReaderCompound]_vars

\* the bytes the whole read takes: four per element, four and the length
BytesRequired(op, n) == IF op = "ReadLengthPrefixedString" THEN 4 + n ELSE 4 * n

\* C27: a ReadFloatArray(n), ReadUInt32Array(n) or ReadLengthPrefixedString()
\* for which fewer bytes remain than the whole read requires fails with
\* out-of-range, and the cursor is where it was before the call
C27_FailedReadKeepsCursor ==
    (rdRequest[1] \in CompoundReaderOps /\ rdRequest[3] <= rdSize
        /\ rdRequest[3] + BytesRequired(rdRequest[1], rdRequest[2]) > rdSize) =>
            /\ rdOutcome = "out_of_range"
            /\ rdPos = rdRequest[3]

-----------------------------------------------------------------------------
(* DecompressBzip2 (specification SpecBzip2). *)

InitBzip2 == RestIdle /\ Bzip2Init
DecompressBzip2Step == CallDecompressBzip2 /\ UNCHANGED restVars
NextBzip2 == DecompressBzip2Step
SpecBzip2 == InitBzip2 /\ [][NextBzip2]_vars

\* C28: on a valid stream of compressed size c DecompressBzip2 fails on the
\* size limit only if the decompressed output would exceed 50c: every stream
\* whose decompressed size is at most 50c is decompressed successfully, in
\* full
C28_SucceedsUpToFiftyTimes ==
    (fnOut.op = "DecompressBzip2" /\ fnInput.streamSize <= 50 * fnInput.compressedSize) =>
        /\ fnOut.ok
        /\ fnOut.size = fnInput.streamSize

-----------------------------------------------------------------------------
(* TryPatternBasedDecompression (specification SpecPattern). *)

InitPattern == RestIdle /\ PatternInit
TryPatternBasedDecompressionStep == CallTryPatternBasedDecompression /\ UNCHANGED restVars
NextPattern == TryPatternBasedDecompressionStep
SpecPattern == InitPattern /\ [][NextPattern]_vars

\* C29: for every buffer length, lengths 1 to 7 included,
\* TryPatternBasedDecompression reads only bytes inside its input buffer:
\* neither scan loop indexes past the end
C29_ReadsInsideBuffer ==
    fnOut.op = "TryPatternBasedDecompression" => ~fnOut.oob

-----------------------------------------------------------------------------
(* The two LZ decoding loops (specification SpecLz). *)

InitLz == RestIdle /\ LzInit
TryLZ77LoopStep == CallTryLZ77Loop /\ UNCHANGED restVars
DirectXLZSSLoopStep == CallDirectXLZSSLoop /\ UNCHANGED restVars
NextLz == TryLZ77LoopStep \/ DirectXLZSSLoopStep
SpecLz == InitLz /\ [][NextLz]_vars

\* C30: for every input byte sequence the bytes produced by the decoding loop
\* of TryLZ77Decompression equal those produced by the LZSS loop of
\* DecompressDirectXLZ started at header skip 0
C30_DecodersAgree ==
    fnOut.ran = {"lz77", "lzss"} => fnOut.lz77 = fnOut.lzss

\* two literals, then a back-reference of distance 2 and length 3 copied over
\* its own output
C30_Witness ==
    /\ fnOut.ran = {"lz77", "lzss"}
    /\ fnInput = <<3, 65, 1, 16, 0>>
    /\ fnOut.lz77 = <<65, 1, 65, 1, 65>>

=============================================================================
